---- MODULE Spec2Model ----
(***************************************************************************)
(* Model of the sol-cycle swap service (src/service/swap/service.go):      *)
(* the monitoring loop of Service.Start, one evaluation cycle              *)
(* (monitorAndSwap), the trailing stop loss (calculateDynamicStopLoss)     *)
(* and the retry wrappers (swapSOLToUSDC / swapUSDCToSOL).                 *)
(*                                                                         *)
(* Prices, thresholds and balances are float64 in the source; the model    *)
(* draws them from small grids of integers, on which the comparisons,      *)
(* sums and differences of the source are exact.  SOL amounts are counted  *)
(* in units of 0.05 SOL; the conversion of an amount to lamports is the    *)
(* float64 one of the source (see LamportsLostByTruncation).               *)
(***************************************************************************)
EXTENDS Integers, Naturals, Sequences, FiniteSets, TLC

VARIABLES
    config,          \* *datatypes.Config: the fields the service reads and writes
    currentPosition, \* local currentPosition of Start
    pc,              \* where the goroutine running Start is
    cancelled,       \* ctx.Done() of the context given to Start is closed
    cancelledAt,     \* pc at the moment the context was cancelled
    tickerC,         \* number of ticks buffered in ticker.C
    ticksFired,      \* ticks the ticker has produced
    ticksDropped,    \* ticks the ticker could not deliver
    cyclesStarted,   \* calls of monitorAndSwap so far
    cyclesInFlight,  \* calls of monitorAndSwap that have not returned
    evaluation,      \* price, stop loss, position and decision of the last evaluation
    maxObserved,     \* tracker: highest price handed to calculateDynamicStopLoss so far
    samePriceAgain,  \* tracker: the last update repeated the price before it
    retry,           \* loop state of the running retry wrapper
    cycleResult,     \* what the last monitorAndSwap returned
    startResult,     \* what Start returned
    startupReads,    \* startup: the outcomes of the two balance reads, when given
    lastSwap,        \* direction of the last successful swap
    pkgLog,          \* package logger: the default loggers, their sync.Once, logging goroutines
    jup,             \* jupiter.Service.Swap: the background goroutine, errChan and the caller
    ulog             \* utils.Logger: logChan, closed, closeOnce, the worker and the callers

vars == <<config, currentPosition, pc, cancelled, cancelledAt, tickerC,
          ticksFired, ticksDropped, cyclesStarted, cyclesInFlight,
          evaluation, maxObserved, samePriceAgain, retry, cycleResult,
          startResult, startupReads, lastSwap, pkgLog, jup, ulog>>

\* The state of the loggers and of the Jupiter service, which the loop of
\* Start reaches only through jupiterSvc.Swap.
aux == <<pkgLog, jup, ulog>>

\* The variables of the swap service.
loopVars == <<config, currentPosition, pc, cancelled, cancelledAt, tickerC,
              ticksFired, ticksDropped, cyclesStarted, cyclesInFlight,
              evaluation, maxObserved, samePriceAgain, retry, cycleResult,
              startResult, startupReads, lastSwap>>

(***************************************************************************)
(* Bounds of the model.                                                    *)
(***************************************************************************)
MaxPrice == 7
MaxStopLossAdjustment == 1
MaxRetryAttempts == 2
MaxTicks == 3
MaxSolBalance == 3
MaxLoopPrice == 4

(***************************************************************************)
(* Program constants.                                                      *)
(***************************************************************************)
TickerChanCap == 1
MinimumSOLUnits == 2
MinStopLossPrice == 2

InSOL == "SOL"
InUSDC == "USDC"
NoPosition == ""

Prices == 0..MaxPrice
LoopPrices == 0..MaxLoopPrice
StopLossPrices == MinStopLossPrice..(MinStopLossPrice + 1)
Adjustments == 0..MaxStopLossAdjustment
SolBalances == 0..MaxSolBalance
UsdcBalances == 0..2

\* CheckInterval in seconds: 0 stands for the non-positive values.
CheckIntervals == 0..1

\* The startup reads are drawn by the startup step itself.
NoStartupReads == [given |-> FALSE]

NoEvaluation == [price |-> 0, effectiveStopLoss |-> 0, position |-> NoPosition, action |-> "unset"]
\* The mints of src/service/swap/service.go, lines 38-42.
SolMint == "SolMint"
USDCMint == "USDCMint"

\* Smallest units: lamports in a SOL unit of the model (0.05 SOL), and raw
\* token units in one USDC.
LamportsPerSolUnit == 50000000
RawPerUSDC == 1000000

\* No call of the Jupiter service, and no error returned by the wrapper.
NoSwapCall == [inputMint |-> "", outputMint |-> "", amount |-> 0]
NoWrapperError == [attempts |-> 0, cause |-> "none"]

\* Loop state of a retry wrapper.  balanceRead, balance, swapCall,
\* executorReturned and lastError belong to the current attempt.
NoRetry == [attempt |-> 0, attemptsMade |-> 0, failures |-> 0, delays |-> 0,
            result |-> "none",
            balanceRead |-> "none", balance |-> 0, localFailures |-> 0,
            executorCalls |-> 0, submitted |-> 0, swapCall |-> NoSwapCall,
            executorReturned |-> "none", lastError |-> "none",
            wrapperError |-> NoWrapperError]

(***************************************************************************)
(* The loggers and the Jupiter service before anything has used them.      *)
(***************************************************************************)
\* Package logger (src/pkg/logger): defaultLogger and defaultSwapLogger are
\* nil and neither sync.Once has run.  spawned counts the logging
\* goroutines started and not yet run, nilCalls the method calls made on a
\* nil default logger; crashed: the process has ended (a panic that nothing
\* recovers, or log.Fatalf in main).
NoPkgLog == [onceDone |-> FALSE, defaultLogger |-> "nil",
             swapOnceDone |-> FALSE, defaultSwapLogger |-> "nil",
             spawned |-> 0, nilCalls |-> 0, crashed |-> FALSE]

\* jupiter.Service.Swap: no call yet.  results counts the values sent on
\* errChan by the current call.
NoJup == [pc |-> "idle", caller |-> "idle", errChan |-> <<>>,
          result |-> "none", results |-> 0, sent |-> FALSE,
          confirmed |-> FALSE, calls |-> 0, submitted |-> 0]

\* utils.Logger before NewLogger.  queued lists every entry ever put into
\* logChan, processed the entries the worker has taken out; entries counts
\* the calls of LogSwapOperation.
NoUlog == [made |-> FALSE, logChan |-> <<>>, chanClosed |-> FALSE,
           closed |-> FALSE, once |-> "fresh", worker |-> "none",
           processed |-> <<>>, queued |-> <<>>, entries |-> 0,
           dropped |-> 0, rejected |-> 0, sendOnClosed |-> 0,
           crashed |-> FALSE, callers |-> <<>>, closers |-> <<>>]

AuxAtRest == pkgLog = NoPkgLog /\ jup = NoJup /\ ulog = NoUlog

(***************************************************************************)
(* Variants of calculateDynamicStopLoss with one condition changed, used   *)
(* to show that the properties below depend on the conditions of the code. *)
(* NoActivation drops the activation condition of line 190; TrackLast      *)
(* records every activating price as the highest price (line 192).         *)
(***************************************************************************)
calculateDynamicStopLossNoActivation(cfg, currentPrice) ==
    IF ~cfg.DynamicStopLoss
    THEN [stopLoss |-> cfg.StopLossPrice, HighestPrice |-> cfg.HighestPrice]
    ELSE IF cfg.HighestPrice = 0
            \/ currentPrice > cfg.HighestPrice + cfg.StopLossAdjustment
         THEN [stopLoss |-> currentPrice - cfg.StopLossAdjustment,
               HighestPrice |-> currentPrice]
         ELSE IF cfg.HighestPrice > cfg.StopLossPrice + cfg.StopLossAdjustment
                 /\ cfg.HighestPrice - cfg.StopLossAdjustment > cfg.StopLossPrice
              THEN [stopLoss |-> cfg.HighestPrice - cfg.StopLossAdjustment,
                    HighestPrice |-> cfg.HighestPrice]
              ELSE [stopLoss |-> cfg.StopLossPrice,
                    HighestPrice |-> cfg.HighestPrice]

calculateDynamicStopLossTrackLast(cfg, currentPrice) ==
    IF ~cfg.DynamicStopLoss
    THEN [stopLoss |-> cfg.StopLossPrice, HighestPrice |-> cfg.HighestPrice]
    ELSE IF currentPrice > cfg.StopLossPrice + cfg.StopLossAdjustment
         THEN [stopLoss |-> currentPrice - cfg.StopLossAdjustment,
               HighestPrice |-> currentPrice]
         ELSE [stopLoss |-> cfg.StopLossPrice, HighestPrice |-> cfg.HighestPrice]

\* calculateDynamicStopLoss without the early return of lines 184-186: the
\* DynamicStopLoss flag is ignored.
calculateDynamicStopLossIgnoresFlag(cfg, currentPrice) ==
    IF currentPrice > cfg.StopLossPrice + cfg.StopLossAdjustment
    THEN IF cfg.HighestPrice = 0
            \/ currentPrice > cfg.HighestPrice + cfg.StopLossAdjustment
         THEN [stopLoss |-> currentPrice - cfg.StopLossAdjustment,
               HighestPrice |-> currentPrice]
         ELSE IF cfg.HighestPrice > cfg.StopLossPrice + cfg.StopLossAdjustment
                 /\ cfg.HighestPrice - cfg.StopLossAdjustment > cfg.StopLossPrice
              THEN [stopLoss |-> cfg.HighestPrice - cfg.StopLossAdjustment,
                    HighestPrice |-> cfg.HighestPrice]
              ELSE [stopLoss |-> cfg.StopLossPrice,
                    HighestPrice |-> cfg.HighestPrice]
    ELSE [stopLoss |-> cfg.StopLossPrice, HighestPrice |-> cfg.HighestPrice]

\* calculateDynamicStopLoss without lines 204-211: a price that is no new
\* high gets the initial stop loss.
calculateDynamicStopLossForgetsHigh(cfg, currentPrice) ==
    IF ~cfg.DynamicStopLoss
    THEN [stopLoss |-> cfg.StopLossPrice, HighestPrice |-> cfg.HighestPrice]
    ELSE IF currentPrice > cfg.StopLossPrice + cfg.StopLossAdjustment
            /\ (cfg.HighestPrice = 0
                \/ currentPrice > cfg.HighestPrice + cfg.StopLossAdjustment)
         THEN [stopLoss |-> currentPrice - cfg.StopLossAdjustment,
               HighestPrice |-> currentPrice]
         ELSE [stopLoss |-> cfg.StopLossPrice, HighestPrice |-> cfg.HighestPrice]

(***************************************************************************)
(* calculateDynamicStopLoss: the stop loss returned for currentPrice and   *)
(* the value config.HighestPrice has afterwards.                           *)
(***************************************************************************)
calculateDynamicStopLoss(cfg, currentPrice) ==
    IF ~cfg.DynamicStopLoss
    THEN [stopLoss |-> cfg.StopLossPrice, HighestPrice |-> cfg.HighestPrice]
    ELSE IF currentPrice > cfg.StopLossPrice + cfg.StopLossAdjustment
         THEN IF cfg.HighestPrice = 0
                 \/ currentPrice > cfg.HighestPrice + cfg.StopLossAdjustment
              THEN [stopLoss |-> currentPrice - cfg.StopLossAdjustment,
                    HighestPrice |-> currentPrice]
              ELSE IF cfg.HighestPrice > cfg.StopLossPrice + cfg.StopLossAdjustment
                      /\ cfg.HighestPrice - cfg.StopLossAdjustment > cfg.StopLossPrice
                   THEN [stopLoss |-> cfg.HighestPrice - cfg.StopLossAdjustment,
                         HighestPrice |-> cfg.HighestPrice]
                   ELSE [stopLoss |-> cfg.StopLossPrice,
                         HighestPrice |-> cfg.HighestPrice]
         ELSE [stopLoss |-> cfg.StopLossPrice, HighestPrice |-> cfg.HighestPrice]

\* decide with the comparisons of lines 155 and 165 made non-strict.
\* The decision with the two comparisons exchanged.
decideInverted(position, p, stopLoss) ==
    IF position = InSOL /\ p > stopLoss THEN "SOLToUSDC"
    ELSE IF position = InUSDC /\ p < stopLoss THEN "USDCToSOL"
    ELSE "None"

decideNonStrict(position, p, stopLoss) ==
    IF position = InSOL /\ p <= stopLoss THEN "SOLToUSDC"
    ELSE IF position = InUSDC /\ p >= stopLoss THEN "USDCToSOL"
    ELSE "None"

(***************************************************************************)
(* The decision of monitorAndSwap: which swap the cycle starts.            *)
(***************************************************************************)
decide(position, p, stopLoss) ==
    IF position = InSOL /\ p < stopLoss THEN "SOLToUSDC"
    ELSE IF position = InUSDC /\ p > stopLoss THEN "USDCToSOL"
    ELSE "None"

Max(a, b) == IF a >= b THEN a ELSE b

(***************************************************************************)
(* The state after NewService: main.go builds the configuration with       *)
(* HighestPrice 0; Start has not yet determined the position.              *)
(***************************************************************************)
Init ==
    /\ config \in [StopLossPrice : StopLossPrices,
                   StopLossAdjustment : Adjustments,
                   DynamicStopLoss : BOOLEAN,
                   HighestPrice : {0},
                   RetryAttempts : 0..MaxRetryAttempts,
                   CheckInterval : CheckIntervals,
                   MinimumSOL : {MinimumSOLUnits}]
    /\ currentPosition = NoPosition
    /\ pc = "determineCurrentPosition"
    /\ cancelled = FALSE
    /\ cancelledAt = "none"
    /\ tickerC = 0
    /\ ticksFired = 0
    /\ ticksDropped = 0
    /\ cyclesStarted = 0
    /\ cyclesInFlight = 0
    /\ evaluation = NoEvaluation
    /\ maxObserved = 0
    /\ samePriceAgain = FALSE
    /\ retry = NoRetry
    /\ cycleResult = "none"
    /\ startResult = "running"
    /\ startupReads = NoStartupReads
    /\ lastSwap = "none"
    /\ AuxAtRest

(***************************************************************************)
(* Start, lines 104-124: determineCurrentPosition reads the SOL balance    *)
(* and then the USDC balance, two blocking calls.  A failed SOL read makes *)
(* Start return an error; a failed USDC read means InSOL; more than one    *)
(* USDC means InUSDC.  The ticker is created once the position is known.   *)
(***************************************************************************)
\* A threshold that a balance of exactly one USDC passes.
determineCurrentPositionNonStrict(solOk, solBalance, usdcOk, usdcHasValue, usdcBalance) ==
    IF ~solOk THEN "error"
    ELSE IF ~usdcOk THEN InSOL
    ELSE IF (IF usdcHasValue THEN usdcBalance ELSE 0) >= 1 THEN InUSDC
    ELSE InSOL

\* A failed USDC balance read reported as an error.
determineCurrentPositionUsdcErrorFatal(solOk, solBalance, usdcOk, usdcHasValue, usdcBalance) ==
    IF ~solOk \/ ~usdcOk THEN "error"
    ELSE IF (IF usdcHasValue THEN usdcBalance ELSE 0) > 1 THEN InUSDC
    ELSE InSOL

\* solBalance is read and only logged; a token balance without a value
\* leaves usdcBalanceFloat at 0.
determineCurrentPosition(solOk, solBalance, usdcOk, usdcHasValue, usdcBalance) ==
    IF ~solOk THEN "error"
    ELSE IF ~usdcOk THEN InSOL
    ELSE IF (IF usdcHasValue THEN usdcBalance ELSE 0) > 1 THEN InUSDC
    ELSE InSOL

\* time.NewTicker panics when its duration is not positive.
NewTickerPanics(checkInterval) == checkInterval <= 0

\* The pc values of Start before the loop: the SOL balance read of line 257
\* is in flight, or the USDC balance read of line 263.
StartupPcs == {"determineCurrentPosition", "GetTokenAccountBalance"}

\* CheckSolBalance, line 257, returns: an error makes determineCurrentPosition
\* and Start return it (lines 258-260 and 107-109); otherwise the balance is
\* logged and the USDC balance read begins.
StartSolRead(solOk, solBalance) ==
    /\ pc = "determineCurrentPosition"
    /\ IF ~solOk
       THEN /\ pc' = "returned"
            /\ startResult' = "positionError"
       ELSE /\ pc' = "GetTokenAccountBalance"
            /\ UNCHANGED startResult
    /\ UNCHANGED <<config, currentPosition, cancelled, cancelledAt, tickerC,
                   ticksFired, ticksDropped, cyclesStarted, cyclesInFlight,
                   evaluation, maxObserved, samePriceAgain, startupReads, aux,
                   lastSwap, retry, cycleResult>>

\* GetTokenAccountBalance, line 263, returns: the position is determined,
\* Start checks the error of determineCurrentPosition (lines 107-109) and
\* creates the ticker (line 123).  solBalance is the balance the SOL read
\* returned.
StartUsdcRead(solBalance, usdcOk, usdcHasValue, usdcBalance) ==
    /\ pc = "GetTokenAccountBalance"
    /\ LET p == determineCurrentPosition(TRUE, solBalance, usdcOk,
                                          usdcHasValue, usdcBalance) IN
       IF p = "error"
       THEN /\ pc' = "returned"
            /\ startResult' = "positionError"
            /\ UNCHANGED currentPosition
       ELSE /\ pc' = IF NewTickerPanics(config.CheckInterval)
                     THEN "panicked" ELSE "select"
            /\ currentPosition' = p
            /\ UNCHANGED startResult
    /\ UNCHANGED <<config, cancelled, cancelledAt, tickerC, ticksFired,
                   ticksDropped, cyclesStarted, cyclesInFlight, evaluation,
                   maxObserved, samePriceAgain, startupReads, aux, lastSwap,
                   retry, cycleResult>>

StartSolBalanceRead ==
    \E solOk \in BOOLEAN, solBalance \in SolBalances :
        StartSolRead(solOk, solBalance)

StartUsdcBalanceRead ==
    \E solBalance \in SolBalances, usdcOk \in BOOLEAN,
       usdcHasValue \in BOOLEAN, usdcBalance \in UsdcBalances :
        StartUsdcRead(solBalance, usdcOk, usdcHasValue, usdcBalance)

(***************************************************************************)
(* The ticker of line 123 (time.NewTicker): a channel holding at most one  *)
(* tick; a tick that finds the channel full is dropped.  The ticker runs   *)
(* from its creation until Start returns (defer ticker.Stop()).            *)
(***************************************************************************)
TickerRunning == pc \notin StartupPcs \cup {"returned", "panicked"}

\* A ticker channel that never fills.
TickerHasRoomUnbounded == TRUE

TickerHasRoom == tickerC < TickerChanCap

TickUpTo(maxTicks) ==
    /\ TickerRunning
    /\ ticksFired < maxTicks
    /\ ticksFired' = ticksFired + 1
    /\ IF TickerHasRoom
       THEN tickerC' = tickerC + 1 /\ UNCHANGED ticksDropped
       ELSE ticksDropped' = ticksDropped + 1 /\ UNCHANGED tickerC
    /\ UNCHANGED <<config, currentPosition, pc, cancelled, cancelledAt,
                   cyclesStarted, cyclesInFlight, evaluation, maxObserved,
                   samePriceAgain, startupReads, aux, lastSwap, retry, cycleResult, startResult>>

Tick == TickUpTo(MaxTicks)

(***************************************************************************)
(* The host cancels the context given to Start.                            *)
(***************************************************************************)
Cancel ==
    /\ ~cancelled
    /\ pc # "returned"
    /\ cancelled' = TRUE
    /\ cancelledAt' = pc
    /\ UNCHANGED <<config, currentPosition, pc, tickerC, ticksFired,
                   ticksDropped, cyclesStarted, cyclesInFlight, evaluation,
                   maxObserved, samePriceAgain, startupReads, aux, lastSwap, retry, cycleResult, startResult>>

(***************************************************************************)
(* The select of lines 126-136.  The loop is at the select only when the   *)
(* previous monitorAndSwap has returned.  When both channels are ready,    *)
(* either case may be taken.                                               *)
(***************************************************************************)
\* The loop takes a tick while monitorAndSwap is still running, as it would
\* with monitorAndSwap started in a goroutine of its own.
AtSelectWhileCycleRuns == pc \notin StartupPcs \cup {"returned"}

AtSelect == pc = "select"

\* A select that looks at ctx.Done() only when no tick is waiting.
SelectDoneAfterTicks ==
    /\ AtSelect
    /\ cancelled
    /\ tickerC = 0
    /\ pc' = "returned"
    /\ startResult' = "ctxErr"
    /\ UNCHANGED <<config, currentPosition, cancelled, cancelledAt, tickerC,
                   ticksFired, ticksDropped, cyclesStarted, cyclesInFlight,
                   evaluation, maxObserved, samePriceAgain, startupReads, aux, lastSwap, retry, cycleResult>>

SelectDone ==
    /\ AtSelect
    /\ cancelled
    /\ pc' = "returned"
    /\ startResult' = "ctxErr"
    /\ UNCHANGED <<config, currentPosition, cancelled, cancelledAt, tickerC,
                   ticksFired, ticksDropped, cyclesStarted, cyclesInFlight,
                   evaluation, maxObserved, samePriceAgain, startupReads, aux, lastSwap, retry, cycleResult>>

\* case <-ticker.C: monitorAndSwap is called and its price fetch begins.
\* started is the number of calls counted from then on.
SelectTickCounting(started) ==
    /\ AtSelect
    /\ tickerC > 0
    /\ tickerC' = tickerC - 1
    /\ pc' = "GetSOLPrice"
    /\ cyclesStarted' = started
    /\ cyclesInFlight' = cyclesInFlight + 1
    /\ evaluation' = NoEvaluation
    /\ retry' = NoRetry
    /\ cycleResult' = "running"
    /\ UNCHANGED <<config, currentPosition, cancelled, cancelledAt,
                   ticksFired, ticksDropped, maxObserved, samePriceAgain, startupReads, aux, lastSwap, startResult>>

SelectTick == SelectTickCounting(cyclesStarted + 1)

\* A loop that ends Start when monitorAndSwap returns an error.
CycleReturnsFatal(err) ==
    /\ pc' = IF err = "nil" THEN "select" ELSE "returned"
    /\ cycleResult' = err
    /\ cyclesInFlight' = cyclesInFlight - 1

(***************************************************************************)
(* monitorAndSwap returns err to the loop of Start, which logs it.         *)
(***************************************************************************)
CycleReturns(err) ==
    /\ pc' = "select"
    /\ cycleResult' = err
    /\ cyclesInFlight' = cyclesInFlight - 1

(***************************************************************************)
(* swapSOLToUSDC / swapUSDCToSOL, lines 291-328: the for loop of the retry *)
(* wrapper.  EnterRetryLoop is the loop entered with attempt = 1; with     *)
(* RetryAttempts < 1 the body never runs and the wrapper returns its       *)
(* error.                                                                  *)
(***************************************************************************)
\* The retry wrapper giving up one attempt early.
MoreAttemptsOneShort(attempt, retryAttempts) == attempt + 1 < retryAttempts

MoreAttempts(attempt, retryAttempts) == attempt < retryAttempts

\* fmt.Errorf("failed to swap after %d attempts", RetryAttempts): the error
\* of the wrapper holds the count and no other error.
WrapperError(retryAttempts) == [attempts |-> retryAttempts, cause |-> "none"]

\* An attempt counter that is not reset between cycles: after a cycle that
\* used up its attempts none is left.
EnterRetryLoopCarriesOver ==
    IF 1 <= config.RetryAttempts /\ cyclesStarted <= 1
    THEN /\ retry' = [NoRetry EXCEPT !.attempt = 1, !.attemptsMade = 1]
         /\ pc' = "CheckBalance"
         /\ UNCHANGED <<cycleResult, cyclesInFlight>>
    ELSE /\ retry' = [NoRetry EXCEPT !.attempt = 1, !.result = "err",
                                     !.wrapperError = WrapperError(config.RetryAttempts)]
         /\ CycleReturns("swapErr")

\* A wrapper that tests the attempt counter after the body: one attempt is
\* made whatever RetryAttempts is.
EnterRetryLoopAtLeastOnce ==
    /\ retry' = [NoRetry EXCEPT !.attempt = 1, !.attemptsMade = 1]
    /\ pc' = "CheckBalance"
    /\ UNCHANGED <<cycleResult, cyclesInFlight>>

EnterRetryLoop ==
    IF 1 <= config.RetryAttempts
    THEN /\ retry' = [NoRetry EXCEPT !.attempt = 1, !.attemptsMade = 1]
         /\ pc' = "CheckBalance"
         /\ UNCHANGED <<cycleResult, cyclesInFlight>>
    ELSE /\ retry' = [NoRetry EXCEPT !.attempt = 1, !.result = "err",
                                     !.wrapperError = WrapperError(config.RetryAttempts)]
         /\ CycleReturns("swapErr")

\* An exhausted retry wrapper whose caller commits the position all the same.
AttemptFailedCommits(r) ==
    IF MoreAttempts(r.attempt, config.RetryAttempts)
    THEN /\ retry' = [r EXCEPT !.failures = @ + 1, !.delays = @ + 1]
         /\ pc' = "RetryDelay"
         /\ UNCHANGED <<cycleResult, cyclesInFlight, currentPosition>>
    ELSE /\ retry' = [r EXCEPT !.failures = @ + 1, !.result = "err",
                               !.wrapperError = WrapperError(config.RetryAttempts)]
         /\ pc' = "select"
         /\ cycleResult' = "swapErr"
         /\ cyclesInFlight' = cyclesInFlight - 1
         /\ currentPosition' = IF currentPosition = InSOL THEN InUSDC ELSE InSOL

\* A retry wrapper that starts the next attempt at once, without the sleep
\* of lines 303 and 323.
AttemptFailedNoDelay(r) ==
    IF MoreAttempts(r.attempt, config.RetryAttempts)
    THEN /\ retry' = [r EXCEPT !.failures = @ + 1,
                               !.attempt = @ + 1, !.attemptsMade = @ + 1,
                               !.balanceRead = "none", !.balance = 0,
                               !.swapCall = NoSwapCall,
                               !.executorReturned = "none",
                               !.lastError = "none"]
         /\ pc' = "CheckBalance"
         /\ UNCHANGED <<cycleResult, cyclesInFlight, currentPosition>>
    ELSE /\ retry' = [r EXCEPT !.failures = @ + 1, !.result = "err",
                               !.wrapperError = WrapperError(config.RetryAttempts)]
         /\ CycleReturns("swapErr")
         /\ UNCHANGED currentPosition

\* An attempt returned an error: sleep and retry while attempts remain.  r is
\* the loop state with the attempt's balance read and Executor call counted.
\* delays counts the sleeps the wrapper has started.
AttemptFailed(r) ==
    IF MoreAttempts(r.attempt, config.RetryAttempts)
    THEN /\ retry' = [r EXCEPT !.failures = @ + 1, !.delays = @ + 1]
         /\ pc' = "RetryDelay"
         /\ UNCHANGED <<cycleResult, cyclesInFlight, currentPosition>>
    ELSE /\ retry' = [r EXCEPT !.failures = @ + 1, !.result = "err",
                               !.wrapperError = WrapperError(config.RetryAttempts)]
         /\ CycleReturns("swapErr")
         /\ UNCHANGED currentPosition

\* An attempt returned nil: the wrapper returns nil and monitorAndSwap
\* commits the new position (lines 163 and 174).
Opposite(position) == IF position = InSOL THEN InUSDC ELSE InSOL

\* A successful swap after which the position is not updated.
AttemptSucceededNoCommit ==
    /\ retry' = [retry EXCEPT !.result = "nil", !.executorReturned = "nil",
                              !.submitted = @ + 1]
    /\ UNCHANGED currentPosition
    /\ lastSwap' = evaluation.action
    /\ CycleReturns("nil")

AttemptSucceeded ==
    /\ retry' = [retry EXCEPT !.result = "nil", !.executorReturned = "nil",
                              !.submitted = @ + 1]
    /\ currentPosition' = Opposite(currentPosition)
    /\ lastSwap' = evaluation.action
    /\ CycleReturns("nil")

(***************************************************************************)
(* monitorAndSwap, lines 140-179, from the return of GetSOLPrice to the    *)
(* next blocking call.                                                     *)
(***************************************************************************)
\* A failed price fetch that ends Start instead of the cycle.
PriceFetchFailsFatal ==
    /\ pc = "GetSOLPrice"
    /\ pc' = "returned"
    /\ cycleResult' = "priceErr"
    /\ cyclesInFlight' = cyclesInFlight - 1
    /\ startResult' = "priceErr"
    /\ UNCHANGED <<config, currentPosition, cancelled, cancelledAt, tickerC,
                   ticksFired, ticksDropped, cyclesStarted, evaluation,
                   maxObserved, samePriceAgain, startupReads, aux, lastSwap, retry>>

PriceFetchFails ==
    /\ pc = "GetSOLPrice"
    /\ CycleReturns("priceErr")
    /\ UNCHANGED <<config, currentPosition, cancelled, cancelledAt, tickerC,
                   ticksFired, ticksDropped, cyclesStarted, evaluation,
                   maxObserved, samePriceAgain, startupReads, aux, lastSwap, retry, startResult>>

PriceFetched(p) ==
    /\ pc = "GetSOLPrice"
    /\ LET r == calculateDynamicStopLoss(config, p)
           action == decide(currentPosition, p, r.stopLoss) IN
       /\ config' = [config EXCEPT !.HighestPrice = r.HighestPrice]
       /\ evaluation' = [price |-> p, effectiveStopLoss |-> r.stopLoss,
                         position |-> currentPosition, action |-> action]
       /\ IF action = "None"
          THEN CycleReturns("nil") /\ UNCHANGED retry
          ELSE EnterRetryLoop
    /\ UNCHANGED <<currentPosition, cancelled, cancelledAt, tickerC,
                   ticksFired, ticksDropped, cyclesStarted, startResult,
                   maxObserved, samePriceAgain, startupReads, aux, lastSwap>>

(***************************************************************************)
(* executeSOLToUSDCSwap / executeUSDCToSOLSwap, lines 331-416: a fresh     *)
(* balance read, the amount, then one call of the Jupiter service.         *)
(***************************************************************************)
\* The amount computed without keeping the minimum SOL balance.
swapAmountNoReserve(action, balance, minimumSOL) == balance

swapAmount(action, balance, minimumSOL) ==
    IF action = "SOLToUSDC" THEN balance - minimumSOL ELSE balance

\* lamports := uint64(swapAmount * 1e9), line 351, in float64 arithmetic:
\* for a balance of 0.15, 0.3 or 0.35 SOL and MinimumSOL 0.1 the difference
\* is just below the exact one (0.15 - 0.1 = 0.04999999999999999) and the
\* conversion truncates, which loses one lamport.  The table covers the
\* balances below 1.15 SOL.
LamportsLostByTruncation(balance, minimumSOL) ==
    IF minimumSOL = MinimumSOLUnits /\ balance \in {3, 6, 7} THEN 1 ELSE 0

\* The arguments of jupiterSvc.Swap (lines 356-362 and 405-411): the amount
\* in lamports, or the raw token amount of the USDC account.
ExecutorCall(action, balance, minimumSOL) ==
    IF action = "SOLToUSDC"
    THEN [inputMint |-> SolMint, outputMint |-> USDCMint,
          amount |-> swapAmount(action, balance, minimumSOL) * LamportsPerSolUnit
                       - LamportsLostByTruncation(balance, minimumSOL)]
    ELSE [inputMint |-> USDCMint, outputMint |-> SolMint,
          amount |-> balance * RawPerUSDC]

\* A balance read after which an amount <= 0 ends the cycle at once, without
\* error, delay or further attempt.
BalanceReadLocalFailureEndsCycle(ok, balance) ==
    /\ pc = "CheckBalance"
    /\ IF ~ok
       THEN AttemptFailed([retry EXCEPT !.balanceRead = "err", !.balance = 0,
                                        !.lastError = "balanceReadErr"])
       ELSE IF swapAmount(evaluation.action, balance, config.MinimumSOL) <= 0
       THEN /\ retry' = [retry EXCEPT !.balanceRead = "ok",
                                      !.balance = balance,
                                      !.localFailures = @ + 1,
                                      !.failures = @ + 1,
                                      !.result = "err"]
            /\ CycleReturns("nil")
            /\ UNCHANGED currentPosition
       ELSE /\ pc' = "JupiterSwap"
            /\ retry' = [retry EXCEPT !.balanceRead = "ok",
                                      !.balance = balance,
                                      !.executorCalls = @ + 1,
                                      !.swapCall = ExecutorCall(evaluation.action, balance,
                                                                config.MinimumSOL)]
            /\ UNCHANGED <<cycleResult, cyclesInFlight, currentPosition>>
    /\ UNCHANGED <<config, cancelled, cancelledAt, tickerC, ticksFired,
                   ticksDropped, cyclesStarted, evaluation, maxObserved,
                   samePriceAgain, startupReads, aux, lastSwap, startResult>>

\* The balance read of an attempt returns.  A failed read and an amount <= 0
\* end the attempt with an error before the Jupiter service is called.
BalanceRead(ok, balance) ==
    /\ pc = "CheckBalance"
    /\ IF ~ok
       THEN AttemptFailed([retry EXCEPT !.balanceRead = "err", !.balance = 0,
                                        !.lastError = "balanceReadErr"])
       ELSE IF swapAmount(evaluation.action, balance, config.MinimumSOL) <= 0
       THEN AttemptFailed([retry EXCEPT !.balanceRead = "ok",
                                        !.balance = balance,
                                        !.localFailures = @ + 1,
                                        !.lastError = "noAmount"])
       ELSE /\ pc' = "JupiterSwap"
            /\ retry' = [retry EXCEPT !.balanceRead = "ok",
                                      !.balance = balance,
                                      !.executorCalls = @ + 1,
                                      !.swapCall = ExecutorCall(evaluation.action, balance,
                                                                config.MinimumSOL)]
            /\ UNCHANGED <<cycleResult, cyclesInFlight, currentPosition>>
    /\ UNCHANGED <<config, cancelled, cancelledAt, tickerC, ticksFired,
                   ticksDropped, cyclesStarted, evaluation, maxObserved,
                   samePriceAgain, startupReads, aux, lastSwap, startResult>>

\* The error of jupiterSvc.Swap: raised before the transaction was sent, or
\* by the signature check after it.
SwapError(sent) == IF sent THEN "unconfirmed" ELSE "swapErr"

\* A Jupiter call that is abandoned when the context of Start is cancelled:
\* the attempt counts as failed without the call having returned.
JupiterSwapReturnsInterrupted(ok) ==
    /\ pc = "JupiterSwap"
    /\ IF ok /\ ~cancelled
       THEN AttemptSucceeded
       ELSE /\ \E sent \in BOOLEAN :
                 AttemptFailed([retry EXCEPT
                    !.executorReturned = IF cancelled THEN "none" ELSE "err",
                    !.submitted = IF sent THEN @ + 1 ELSE @,
                    !.lastError = IF cancelled THEN "ctxErr"
                                  ELSE SwapError(sent)])
            /\ UNCHANGED lastSwap
    /\ UNCHANGED <<config, cancelled, cancelledAt, tickerC, ticksFired,
                   ticksDropped, cyclesStarted, evaluation, maxObserved,
                   samePriceAgain, startupReads, aux, startResult>>

\* A successful swap that resets the highest price seen when the position
\* flips.
JupiterSwapReturnsResetsHigh(ok) ==
    /\ pc = "JupiterSwap"
    /\ IF ok
       THEN /\ AttemptSucceeded
            /\ config' = [config EXCEPT !.HighestPrice = 0]
       ELSE /\ \E sent \in BOOLEAN :
                 AttemptFailed([retry EXCEPT !.executorReturned = "err",
                                             !.submitted = IF sent THEN @ + 1 ELSE @,
                                             !.lastError = SwapError(sent)])
            /\ UNCHANGED <<lastSwap, config>>
    /\ UNCHANGED <<cancelled, cancelledAt, tickerC, ticksFired,
                   ticksDropped, cyclesStarted, evaluation, maxObserved,
                   samePriceAgain, startupReads, aux, startResult>>

\* A wrapper that gives up, without another attempt, when the error came
\* after the transaction had been sent.
JupiterSwapReturnsUnconfirmedFinal(ok) ==
    /\ pc = "JupiterSwap"
    /\ IF ok
       THEN AttemptSucceeded
       ELSE /\ \E sent \in BOOLEAN :
                 IF sent
                 THEN /\ retry' = [retry EXCEPT !.executorReturned = "err",
                                                !.submitted = @ + 1,
                                                !.lastError = SwapError(sent),
                                                !.failures = @ + 1,
                                                !.result = "err",
                                                !.wrapperError = WrapperError(config.RetryAttempts)]
                      /\ CycleReturns("swapErr")
                      /\ UNCHANGED currentPosition
                 ELSE AttemptFailed([retry EXCEPT !.executorReturned = "err",
                                                  !.lastError = SwapError(sent)])
            /\ UNCHANGED lastSwap
    /\ UNCHANGED <<config, cancelled, cancelledAt, tickerC, ticksFired,
                   ticksDropped, cyclesStarted, evaluation, maxObserved,
                   samePriceAgain, startupReads, aux, startResult>>

\* jupiterSvc.Swap returns nil or an error.  An error that comes from the
\* signature check (jupiter/service.go, lines 152-158) comes after the
\* transaction was sent (line 136); submitted counts the transactions sent
\* on behalf of the running wrapper.
JupiterSwapReturns(ok) ==
    /\ pc = "JupiterSwap"
    /\ IF ok
       THEN AttemptSucceeded
       ELSE /\ \E sent \in BOOLEAN :
                 AttemptFailed([retry EXCEPT !.executorReturned = "err",
                                             !.submitted = IF sent THEN @ + 1 ELSE @,
                                             !.lastError = SwapError(sent)])
            /\ UNCHANGED lastSwap
    /\ UNCHANGED <<config, cancelled, cancelledAt, tickerC, ticksFired,
                   ticksDropped, cyclesStarted, evaluation, maxObserved,
                   samePriceAgain, startupReads, aux, startResult>>

\* time.Sleep(RetryDelay) of lines 303 and 323 returns: attempt++ and the
\* next attempt begins.
\* A retry that calls the Jupiter service again with the balance read by the
\* attempt before it.
RetryDelayElapsedReusesBalance ==
    /\ pc = "RetryDelay"
    /\ IF retry.balanceRead = "ok" /\ retry.swapCall # NoSwapCall
       THEN /\ retry' = [retry EXCEPT !.attempt = @ + 1, !.attemptsMade = @ + 1,
                                      !.executorCalls = @ + 1,
                                      !.executorReturned = "none",
                                      !.lastError = "none"]
            /\ pc' = "JupiterSwap"
       ELSE /\ retry' = [retry EXCEPT !.attempt = @ + 1, !.attemptsMade = @ + 1,
                                      !.balanceRead = "none", !.balance = 0,
                                      !.swapCall = NoSwapCall,
                                      !.executorReturned = "none",
                                      !.lastError = "none"]
            /\ pc' = "CheckBalance"
    /\ UNCHANGED <<config, currentPosition, cancelled, cancelledAt, tickerC,
                   ticksFired, ticksDropped, cyclesStarted, cyclesInFlight,
                   evaluation, maxObserved, samePriceAgain, startupReads, aux,
                   lastSwap, cycleResult, startResult>>

RetryDelayElapsed ==
    /\ pc = "RetryDelay"
    /\ retry' = [retry EXCEPT !.attempt = @ + 1, !.attemptsMade = @ + 1,
                              !.balanceRead = "none", !.balance = 0,
                              !.swapCall = NoSwapCall,
                              !.executorReturned = "none",
                              !.lastError = "none"]
    /\ pc' = "CheckBalance"
    /\ UNCHANGED <<config, currentPosition, cancelled, cancelledAt, tickerC,
                   ticksFired, ticksDropped, cyclesStarted, cyclesInFlight,
                   evaluation, maxObserved, samePriceAgain, startupReads, aux, lastSwap, cycleResult, startResult>>

Next ==
    \/ StartSolBalanceRead
    \/ StartUsdcBalanceRead
    \/ Tick
    \/ Cancel
    \/ SelectDone
    \/ SelectTick
    \/ PriceFetchFails
    \/ \E p \in LoopPrices : PriceFetched(p)
    \/ \E ok \in BOOLEAN, b \in SolBalances : BalanceRead(ok, b)
    \/ \E ok \in BOOLEAN : JupiterSwapReturns(ok)
    \/ RetryDelayElapsed

Spec == Init /\ [][Next]_vars

(***************************************************************************)
(* The loop of Start run on a given sequence of prices: the price fetched  *)
(* by the i-th cycle is the i-th price of the sequence, and the ticker     *)
(* fires once per price.  The position has been determined and the ticker  *)
(* created.                                                                *)
(***************************************************************************)
ScenarioInit(stopLossPrice, adjustments, dynamic, positions) ==
    /\ config \in [StopLossPrice : {stopLossPrice},
                   StopLossAdjustment : adjustments,
                   DynamicStopLoss : {dynamic},
                   HighestPrice : {0},
                   RetryAttempts : 1..MaxRetryAttempts,
                   CheckInterval : {1},
                   MinimumSOL : {MinimumSOLUnits}]
    /\ currentPosition \in positions
    /\ pc = "select"
    /\ cancelled = FALSE
    /\ cancelledAt = "none"
    /\ tickerC = 0
    /\ ticksFired = 0
    /\ ticksDropped = 0
    /\ cyclesStarted = 0
    /\ cyclesInFlight = 0
    /\ evaluation = NoEvaluation
    /\ maxObserved = 0
    /\ samePriceAgain = FALSE
    /\ retry = NoRetry
    /\ cycleResult = "none"
    /\ startResult = "running"
    /\ startupReads = NoStartupReads
    /\ lastSwap = "none"
    /\ AuxAtRest

ScenarioPriceFetched(prices) ==
    /\ cyclesStarted \in 1..Len(prices)
    /\ PriceFetched(prices[cyclesStarted])

\* Fixed stop loss 130, holding SOL, prices 135, 132, 128; every balance
\* read and every Jupiter swap succeeds.
ScenarioAPrices == <<135, 132, 128>>

ScenarioAInit == ScenarioInit(130, {0, 5, 10}, FALSE, {InSOL})

ScenarioASufficientBalanceRead ==
    \E b \in SolBalances :
        /\ swapAmount(evaluation.action, b, config.MinimumSOL) > 0
        /\ BalanceRead(TRUE, b)

ScenarioANext ==
    \/ TickUpTo(Len(ScenarioAPrices))
    \/ SelectTick
    \/ ScenarioPriceFetched(ScenarioAPrices)
    \/ ScenarioASufficientBalanceRead
    \/ JupiterSwapReturns(TRUE)

SpecScenarioA == ScenarioAInit /\ [][ScenarioANext]_vars

\* Dynamic stop loss 130 with adjustment 5, prices 136, 142, 150, 143, from
\* either position; balance reads and swaps may fail.
ScenarioBPrices == <<136, 142, 150, 143>>

ScenarioBInit == ScenarioInit(130, {5}, TRUE, {InSOL, InUSDC})

ScenarioBNext ==
    \/ TickUpTo(Len(ScenarioBPrices))
    \/ SelectTick
    \/ ScenarioPriceFetched(ScenarioBPrices)
    \/ \E ok \in BOOLEAN, b \in SolBalances : BalanceRead(ok, b)
    \/ \E ok \in BOOLEAN : JupiterSwapReturns(ok)
    \/ RetryDelayElapsed

SpecScenarioB == ScenarioBInit /\ [][ScenarioBNext]_vars

\* Fixed stop loss 130, holding SOL, the price 128 in two cycles running:
\* the sale is due in the second cycle whenever the first did not succeed.
ScenarioCPrices == <<128, 128>>

ScenarioCInit == ScenarioInit(130, {0}, FALSE, {InSOL})

ScenarioCNext ==
    \/ TickUpTo(Len(ScenarioCPrices))
    \/ SelectTick
    \/ ScenarioPriceFetched(ScenarioCPrices)
    \/ \E ok \in BOOLEAN, b \in SolBalances : BalanceRead(ok, b)
    \/ \E ok \in BOOLEAN : JupiterSwapReturns(ok)
    \/ RetryDelayElapsed

SpecScenarioC == ScenarioCInit /\ [][ScenarioCNext]_vars

(***************************************************************************)
(* Start applied to given outcomes of the two startup balance reads,       *)
(* followed by at most one cycle of the loop.                              *)
(***************************************************************************)
StartupReads ==
    [given : {TRUE}, solOk : BOOLEAN, solBalance : SolBalances,
     usdcOk : BOOLEAN, usdcHasValue : BOOLEAN, usdcBalance : UsdcBalances]

StartupInit ==
    /\ config \in [StopLossPrice : {MinStopLossPrice},
                   StopLossAdjustment : {0},
                   DynamicStopLoss : {FALSE},
                   HighestPrice : {0},
                   RetryAttempts : {1},
                   CheckInterval : CheckIntervals,
                   MinimumSOL : {MinimumSOLUnits}]
    /\ startupReads \in StartupReads
    /\ currentPosition = NoPosition
    /\ pc = "determineCurrentPosition"
    /\ cancelled = FALSE
    /\ cancelledAt = "none"
    /\ tickerC = 0
    /\ ticksFired = 0
    /\ ticksDropped = 0
    /\ cyclesStarted = 0
    /\ cyclesInFlight = 0
    /\ evaluation = NoEvaluation
    /\ maxObserved = 0
    /\ samePriceAgain = FALSE
    /\ retry = NoRetry
    /\ cycleResult = "none"
    /\ startResult = "running"
    /\ lastSwap = "none"
    /\ AuxAtRest

StartSolReadGiven ==
    /\ startupReads.given
    /\ StartSolRead(startupReads.solOk, startupReads.solBalance)

StartUsdcReadGiven ==
    /\ startupReads.given
    /\ StartUsdcRead(startupReads.solBalance, startupReads.usdcOk,
                     startupReads.usdcHasValue, startupReads.usdcBalance)

StartupNext ==
    \/ StartSolReadGiven
    \/ StartUsdcReadGiven
    \/ TickUpTo(1)
    \/ SelectTick
    \/ PriceFetchFails
    \/ \E p \in LoopPrices : PriceFetched(p)
    \/ \E ok \in BOOLEAN, b \in SolBalances : BalanceRead(ok, b)
    \/ \E ok \in BOOLEAN : JupiterSwapReturns(ok)

SpecStartup == StartupInit /\ [][StartupNext]_vars

(***************************************************************************)
(* Specification of the threshold tracker alone: any sequence of prices is *)
(* handed to calculateDynamicStopLoss.                                     *)
(***************************************************************************)
TrackerUpdate(p) ==
    LET r == calculateDynamicStopLoss(config, p) IN
    /\ config' = [config EXCEPT !.HighestPrice = r.HighestPrice]
    /\ evaluation' = [price |-> p, effectiveStopLoss |-> r.stopLoss,
                      position |-> currentPosition, action |-> "None"]
    /\ maxObserved' = Max(maxObserved, p)
    /\ samePriceAgain' = (evaluation.action # "unset" /\ p = evaluation.price)
    /\ UNCHANGED <<currentPosition, pc, cancelled, cancelledAt, tickerC,
                   ticksFired, ticksDropped, cyclesStarted, cyclesInFlight,
                   retry, cycleResult, startResult, startupReads, aux, lastSwap>>

TrackerNext == \E p \in Prices : TrackerUpdate(p)

SpecTracker == Init /\ [][TrackerNext]_vars

(***************************************************************************)
(* The loop of Start with a ticker that never stops firing.  Ticks and     *)
(* cycles beyond MaxTicks are no longer counted; a tick that finds the     *)
(* channel full is dropped and changes nothing.                            *)
(*                                                                         *)
(* Fairness.  Every collaborator call and every sleep returns (weak        *)
(* fairness of the steps that end them).  The select statement takes a     *)
(* case when one is ready, and chooses among the ready cases uniformly at  *)
(* random, so a case that is ready every time the loop is at the select    *)
(* is taken sooner or later (strong fairness of SelectDone).  Nothing is   *)
(* assumed of the ticker or of the host that cancels.                      *)
(***************************************************************************)
TickUncounted ==
    /\ TickerRunning
    /\ ticksFired >= MaxTicks
    /\ TickerHasRoom
    /\ tickerC' = tickerC + 1
    /\ UNCHANGED <<config, currentPosition, pc, cancelled, cancelledAt,
                   ticksFired, ticksDropped, cyclesStarted, cyclesInFlight,
                   evaluation, maxObserved, samePriceAgain, startupReads, aux,
                   lastSwap, retry, cycleResult, startResult>>

LiveSelectTick ==
    SelectTickCounting(IF cyclesStarted < MaxTicks THEN cyclesStarted + 1
                                                   ELSE cyclesStarted)

PriceFetchReturns == PriceFetchFails \/ \E p \in LoopPrices : PriceFetched(p)

BalanceReadReturns == \E ok \in BOOLEAN, b \in SolBalances : BalanceRead(ok, b)

SwapReturns == \E ok \in BOOLEAN : JupiterSwapReturns(ok)

LiveInit == ScenarioInit(MinStopLossPrice, {0}, TRUE, {InSOL, InUSDC})

LiveNext ==
    \/ Tick
    \/ TickUncounted
    \/ Cancel
    \/ SelectDone
    \/ LiveSelectTick
    \/ PriceFetchReturns
    \/ BalanceReadReturns
    \/ SwapReturns
    \/ RetryDelayElapsed

SpecLive ==
    /\ LiveInit
    /\ [][LiveNext]_vars
    /\ WF_vars(PriceFetchReturns)
    /\ WF_vars(BalanceReadReturns)
    /\ WF_vars(SwapReturns)
    /\ WF_vars(RetryDelayElapsed)
    /\ WF_vars(SelectDone \/ LiveSelectTick)
    /\ SF_vars(SelectDone)

(***************************************************************************)
(* The package logger (src/pkg/logger) and jupiter.Service.Swap            *)
(* (src/service/jupiter/service.go, lines 32-170).                         *)
(*                                                                         *)
(* Init and InitSwapLogger run their body under a sync.Once and return     *)
(* the error of that body; a call that finds the Once done runs nothing    *)
(* and returns nil.  The operators take the logger state l and return the  *)
(* state after the call; ok tells whether NewLogger (the log directory     *)
(* and the log file) would succeed if it were run.  The two loggers write  *)
(* to different files, so a call that may run both bodies takes one        *)
(* outcome for each: okSwap for the swap log, ok for the activity log.     *)
(***************************************************************************)
\* Init, lines 27-33 of the logger.
LoggerInit(l, ok) ==
    IF l.onceDone
    THEN [log |-> l, err |-> FALSE]
    ELSE [log |-> [l EXCEPT !.onceDone = TRUE,
                            !.defaultLogger = IF ok THEN "set" ELSE "nil"],
          err |-> ~ok]

\* InitSwapLogger, swap_logger.go, lines 35-60.
InitSwapLogger(l, ok) ==
    IF l.swapOnceDone
    THEN [log |-> l, err |-> FALSE]
    ELSE [log |-> [l EXCEPT !.swapOnceDone = TRUE,
                            !.defaultSwapLogger = IF ok THEN "set" ELSE "nil"],
          err |-> ~ok]

\* A method called on a nil logger dereferences nil at its mu.Lock(): the
\* goroutine panics, and no caller of the logger recovers.
NilLoggerCall(l) == [l EXCEPT !.nilCalls = @ + 1, !.crashed = TRUE]

\* Info, Error, Debug and Warn of the package (lines 116-161), which have
\* the same body.
Info(l, ok) ==
    LET r == IF l.defaultLogger = "nil" THEN LoggerInit(l, ok)
             ELSE [log |-> l, err |-> FALSE] IN
    IF r.err THEN r.log
    ELSE IF r.log.defaultLogger = "nil" THEN NilLoggerCall(r.log)
    ELSE r.log

\* LogSwapAttemptAsync, LogSwapSuccessAsync and LogSwapFailureAsync
\* (swap_logger.go, lines 156-201), which have the same body: the logging
\* itself is left to a new goroutine.  A failed InitSwapLogger is reported
\* with Error, which runs Init when there is no default logger.
LogSwapAttemptAsync(l, okSwap, ok) ==
    LET r == IF l.defaultSwapLogger = "nil" THEN InitSwapLogger(l, okSwap)
             ELSE [log |-> l, err |-> FALSE] IN
    IF r.err THEN Info(r.log, ok)
    ELSE [r.log EXCEPT !.spawned = @ + 1]

\* main.go, lines 26-28: Init, and the process exits when it fails.
MainInit(ok) ==
    /\ ~pkgLog.crashed
    /\ ~pkgLog.onceDone
    /\ LET r == LoggerInit(pkgLog, ok) IN
         pkgLog' = IF r.err THEN [r.log EXCEPT !.crashed = TRUE] ELSE r.log
    /\ UNCHANGED <<loopVars, jup, ulog>>

\* main.go, lines 33-35: InitSwapLogger; its error is logged and main goes on.
MainInitSwapLogger(okSwap, ok) ==
    /\ ~pkgLog.crashed
    /\ pkgLog.onceDone
    /\ ~pkgLog.swapOnceDone
    /\ LET r == InitSwapLogger(pkgLog, okSwap) IN
         pkgLog' = IF r.err THEN Info(r.log, ok) ELSE r.log
    /\ UNCHANGED <<loopVars, jup, ulog>>

\* The goroutine of a LogSwap...Async call runs: a method call on
\* defaultSwapLogger as it is by then.
LogGoroutineRuns ==
    /\ ~pkgLog.crashed
    /\ pkgLog.spawned > 0
    /\ pkgLog' = IF pkgLog.defaultSwapLogger = "nil"
                 THEN NilLoggerCall([pkgLog EXCEPT !.spawned = @ - 1])
                 ELSE [pkgLog EXCEPT !.spawned = @ - 1]
    /\ UNCHANGED <<loopVars, jup, ulog>>

(***************************************************************************)
(* Swap starts a goroutine and waits for one value on errChan, a channel   *)
(* of capacity 1.  In the goroutine every failing step panics; the         *)
(* deferred function recovers, logs and sends the error.                   *)
(***************************************************************************)
MaxSwapCalls == 2

ErrChanCap == 1

JupiterSteps == <<"NewClientWithResponses", "GetQuoteWithResponse",
                  "QuoteJSON200", "prioritizationFee",
                  "PostSwapWithResponse", "SwapJSON200",
                  "NewWalletFromPrivateKeyBase58", "NewClient",
                  "SendTransactionOnChain", "Sleep", "CheckSignature">>

JupiterStepSet == {JupiterSteps[i] : i \in 1..Len(JupiterSteps)}

NextStep(step) ==
    LET i == CHOOSE k \in 1..Len(JupiterSteps) : JupiterSteps[k] = step IN
    IF i < Len(JupiterSteps) THEN JupiterSteps[i + 1] ELSE "done"

\* Swap is called (by an executor of the swap service, which main creates
\* after both init calls): LogSwapAttemptAsync, line 46, then the
\* goroutine of line 49.
SwapCalled ==
    /\ ~pkgLog.crashed
    /\ pkgLog.defaultLogger = "set"
    /\ pkgLog.swapOnceDone
    /\ jup.caller \in {"idle", "returned"}
    /\ jup.pc \in {"idle", "done"}
    /\ jup.calls < MaxSwapCalls
    /\ \E okSwap, ok \in BOOLEAN :
                   pkgLog' = LogSwapAttemptAsync(pkgLog, okSwap, ok)
    /\ jup' = [NoJup EXCEPT !.pc = JupiterSteps[1], !.caller = "blocked",
                            !.calls = jup.calls + 1,
                            !.submitted = jup.submitted]
    /\ UNCHANGED <<loopVars, ulog>>

\* A step of the goroutine succeeds.  After the signature check (lines
\* 160-165): LogSwapSuccessAsync and errChan <- nil.
JupiterStepOk ==
    /\ ~pkgLog.crashed
    /\ jup.pc \in JupiterStepSet
    /\ IF jup.pc = "CheckSignature"
       THEN /\ Len(jup.errChan) < ErrChanCap
            /\ \E okSwap, ok \in BOOLEAN :
                   pkgLog' = LogSwapAttemptAsync(pkgLog, okSwap, ok)
            /\ jup' = [jup EXCEPT !.pc = "done", !.confirmed = TRUE,
                                  !.errChan = Append(@, "nil"),
                                  !.results = @ + 1]
       ELSE /\ jup' = [jup EXCEPT !.pc = NextStep(jup.pc),
                                  !.sent = @ \/ jup.pc = "SendTransactionOnChain",
                                  !.submitted = IF jup.pc = "SendTransactionOnChain"
                                                THEN @ + 1 ELSE @]
            /\ UNCHANGED pkgLog
    /\ UNCHANGED <<loopVars, ulog>>

\* A step of the goroutine fails: it logs and panics.  The signature check
\* also calls LogSwapFailureAsync (line 155).  time.Sleep does not fail.
JupiterStepFails ==
    /\ ~pkgLog.crashed
    /\ jup.pc \in JupiterStepSet \ {"Sleep"}
    /\ IF jup.pc = "CheckSignature"
       THEN \E okSwap, ok \in BOOLEAN :
                   pkgLog' = LogSwapAttemptAsync(pkgLog, okSwap, ok)
       ELSE UNCHANGED pkgLog
    /\ jup' = [jup EXCEPT !.pc = "recover"]
    /\ UNCHANGED <<loopVars, ulog>>

\* The deferred function, lines 51-58: recover, LogSwapFailureAsync and
\* errChan <- the error.
RecoverHandler ==
    /\ ~pkgLog.crashed
    /\ jup.pc = "recover"
    /\ Len(jup.errChan) < ErrChanCap
    /\ \E okSwap, ok \in BOOLEAN :
                   pkgLog' = LogSwapAttemptAsync(pkgLog, okSwap, ok)
    /\ jup' = [jup EXCEPT !.pc = "done", !.errChan = Append(@, "err"),
                          !.results = @ + 1]
    /\ UNCHANGED <<loopVars, ulog>>

\* return <-errChan, line 169.
SwapResultReceived ==
    /\ ~pkgLog.crashed
    /\ jup.caller = "blocked"
    /\ jup.errChan # <<>>
    /\ jup' = [jup EXCEPT !.caller = "returned", !.result = Head(jup.errChan),
                          !.errChan = Tail(@)]
    /\ UNCHANGED <<loopVars, pkgLog, ulog>>

\* The swap service at rest: the Jupiter service and the loggers are
\* looked at on their own.
LoopAtRest ==
    /\ config = [StopLossPrice |-> MinStopLossPrice, StopLossAdjustment |-> 0,
                 DynamicStopLoss |-> FALSE, HighestPrice |-> 0,
                 RetryAttempts |-> MaxRetryAttempts, CheckInterval |-> 1,
                 MinimumSOL |-> MinimumSOLUnits]
    /\ currentPosition = NoPosition
    /\ pc = "determineCurrentPosition"
    /\ cancelled = FALSE
    /\ cancelledAt = "none"
    /\ tickerC = 0
    /\ ticksFired = 0
    /\ ticksDropped = 0
    /\ cyclesStarted = 0
    /\ cyclesInFlight = 0
    /\ evaluation = NoEvaluation
    /\ maxObserved = 0
    /\ samePriceAgain = FALSE
    /\ retry = NoRetry
    /\ cycleResult = "none"
    /\ startResult = "running"
    /\ startupReads = NoStartupReads
    /\ lastSwap = "none"

JupiterInit == LoopAtRest /\ AuxAtRest

JupiterNext ==
    \/ \E ok \in BOOLEAN : MainInit(ok)
    \/ \E okSwap, ok \in BOOLEAN : MainInitSwapLogger(okSwap, ok)
    \/ SwapCalled
    \/ JupiterStepOk
    \/ JupiterStepFails
    \/ RecoverHandler
    \/ SwapResultReceived
    \/ LogGoroutineRuns

SpecJupiter == JupiterInit /\ [][JupiterNext]_vars

(***************************************************************************)
(* utils.Logger (src/internal/utils/logger.go): NewLogger, the worker,     *)
(* LogSwapOperation and Close.  Callers of LogSwapOperation and of Close   *)
(* are goroutines of their own.  LogSwapOperation reads l.closed, which    *)
(* Close writes, without synchronisation: once Close has written it a      *)
(* caller may read either value.  A send on the closed channel panics and  *)
(* ends the process.                                                       *)
(***************************************************************************)
LogChanCap == 2

MaxLogEntries == 3

NumLogCallers == 2

LogCallers == 1..NumLogCallers

\* Two calls of Close.
Closers == 1..2

\* NewLogger, lines 31-43: the channel, closed = false and the worker.
NewLogger ==
    /\ ~ulog.made
    /\ ulog' = [made |-> TRUE, logChan |-> <<>>, chanClosed |-> FALSE,
                closed |-> FALSE, once |-> "fresh", worker |-> "ranging",
                processed |-> <<>>, queued |-> <<>>, entries |-> 0,
                dropped |-> 0, rejected |-> 0, sendOnClosed |-> 0,
                crashed |-> FALSE,
                callers |-> [c \in LogCallers |-> [pc |-> "idle", entry |-> 0]],
                closers |-> [k \in Closers |-> "idle"]]
    /\ UNCHANGED <<loopVars, pkgLog, jup>>

UlogRunning == ulog.made /\ ~ulog.crashed

\* The values a read of l.closed can give.
ClosedReads == IF ulog.closed THEN {TRUE, FALSE} ELSE {FALSE}

\* LogSwapOperation, lines 73-76: the test of l.closed.
LogSwapOperationCheck(c) ==
    /\ UlogRunning
    /\ ulog.callers[c].pc = "idle"
    /\ ulog.entries < MaxLogEntries
    /\ \E closedRead \in ClosedReads :
         ulog' = IF closedRead
                 THEN [ulog EXCEPT !.entries = @ + 1, !.rejected = @ + 1]
                 ELSE [ulog EXCEPT !.entries = @ + 1,
                                   !.callers[c] = [pc |-> "select",
                                                   entry |-> ulog.entries + 1]]
    /\ UNCHANGED <<loopVars, pkgLog, jup>>

\* A send that waits for room in the channel.
LogSwapOperationSelectBlocking(c) ==
    /\ UlogRunning
    /\ ulog.callers[c].pc = "select"
    /\ ulog.chanClosed \/ Len(ulog.logChan) < LogChanCap
    /\ ulog' = IF ulog.chanClosed
               THEN [ulog EXCEPT !.sendOnClosed = @ + 1, !.crashed = TRUE,
                                 !.callers[c].pc = "panicked"]
               ELSE [ulog EXCEPT !.logChan = Append(@, ulog.callers[c].entry),
                                 !.queued = Append(@, ulog.callers[c].entry),
                                 !.callers[c] = [pc |-> "idle", entry |-> 0]]
    /\ UNCHANGED <<loopVars, pkgLog, jup>>

\* LogSwapOperation, lines 79-85: the select with a default case.  The
\* entry is queued when the channel has room and dropped when it is full.
LogSwapOperationSelect(c) ==
    /\ UlogRunning
    /\ ulog.callers[c].pc = "select"
    /\ ulog' = IF ulog.chanClosed
               THEN [ulog EXCEPT !.sendOnClosed = @ + 1, !.crashed = TRUE,
                                 !.callers[c].pc = "panicked"]
               ELSE IF Len(ulog.logChan) < LogChanCap
               THEN [ulog EXCEPT !.logChan = Append(@, ulog.callers[c].entry),
                                 !.queued = Append(@, ulog.callers[c].entry),
                                 !.callers[c] = [pc |-> "idle", entry |-> 0]]
               ELSE [ulog EXCEPT !.dropped = @ + 1,
                                 !.callers[c] = [pc |-> "idle", entry |-> 0]]
    /\ UNCHANGED <<loopVars, pkgLog, jup>>

\* worker, lines 49-68: one entry is taken from the channel and written
\* (or, when the file cannot be opened, reported and skipped).
WorkerProcesses ==
    /\ UlogRunning
    /\ ulog.worker = "ranging"
    /\ ulog.logChan # <<>>
    /\ ulog' = [ulog EXCEPT !.processed = Append(@, Head(ulog.logChan)),
                            !.logChan = Tail(@)]
    /\ UNCHANGED <<loopVars, pkgLog, jup>>

\* worker: the range loop ends when the channel is closed and empty, and
\* the deferred wg.Done() runs.
WorkerExits ==
    /\ UlogRunning
    /\ ulog.worker = "ranging"
    /\ ulog.logChan = <<>>
    /\ ulog.chanClosed
    /\ ulog' = [ulog EXCEPT !.worker = "exited"]
    /\ UNCHANGED <<loopVars, pkgLog, jup>>

\* Close, line 129: closeOnce.Do.  The first call runs the function; a call
\* made while it runs waits until it has returned; a call made after that
\* returns at once.
CloseCalled(k) ==
    /\ UlogRunning
    /\ ulog.closers[k] = "idle"
    /\ ulog' = IF ulog.once = "fresh"
               THEN [ulog EXCEPT !.once = "running", !.closers[k] = "inOnce"]
               ELSE IF ulog.once = "running"
               THEN [ulog EXCEPT !.closers[k] = "waitOnce"]
               ELSE [ulog EXCEPT !.closers[k] = "returned"]
    /\ UNCHANGED <<loopVars, pkgLog, jup>>

\* Close, line 130: l.closed = true.
CloseSetsClosed(k) ==
    /\ UlogRunning
    /\ ulog.closers[k] = "inOnce"
    /\ ulog' = [ulog EXCEPT !.closed = TRUE, !.closers[k] = "closing"]
    /\ UNCHANGED <<loopVars, pkgLog, jup>>

\* Close, line 131: close(l.logChan).
CloseClosesChan(k) ==
    /\ UlogRunning
    /\ ulog.closers[k] = "closing"
    /\ ulog' = [ulog EXCEPT !.chanClosed = TRUE, !.closers[k] = "waiting"]
    /\ UNCHANGED <<loopVars, pkgLog, jup>>

\* A Close that does not wait for the worker.
CloseWaitDoneNoWait(k) ==
    /\ UlogRunning
    /\ ulog.closers[k] = "waiting"
    /\ ulog' = [ulog EXCEPT !.once = "done", !.closers[k] = "returned"]
    /\ UNCHANGED <<loopVars, pkgLog, jup>>

\* Close, line 132: l.wg.Wait() returns when the worker has exited; the
\* Once is done and Close returns.
CloseWaitDone(k) ==
    /\ UlogRunning
    /\ ulog.closers[k] = "waiting"
    /\ ulog.worker = "exited"
    /\ ulog' = [ulog EXCEPT !.once = "done", !.closers[k] = "returned"]
    /\ UNCHANGED <<loopVars, pkgLog, jup>>

\* A Close call that waited for the running Once returns.
CloseOnceReleased(k) ==
    /\ UlogRunning
    /\ ulog.closers[k] = "waitOnce"
    /\ ulog.once = "done"
    /\ ulog' = [ulog EXCEPT !.closers[k] = "returned"]
    /\ UNCHANGED <<loopVars, pkgLog, jup>>

UtilsLoggerInit == LoopAtRest /\ AuxAtRest

UtilsLoggerNext ==
    \/ NewLogger
    \/ \E c \in LogCallers : LogSwapOperationCheck(c)
    \/ \E c \in LogCallers : LogSwapOperationSelect(c)
    \/ WorkerProcesses
    \/ WorkerExits
    \/ \E k \in Closers : CloseCalled(k)
    \/ \E k \in Closers : CloseSetsClosed(k)
    \/ \E k \in Closers : CloseClosesChan(k)
    \/ \E k \in Closers : CloseWaitDone(k)
    \/ \E k \in Closers : CloseOnceReleased(k)

SpecUtilsLogger == UtilsLoggerInit /\ [][UtilsLoggerNext]_vars

(***************************************************************************)
(* Properties.                                                             *)
(***************************************************************************)
Evaluated == evaluation.action # "unset"

ActivationLevel == config.StopLossPrice + config.StopLossAdjustment

InSwap == pc \in {"CheckBalance", "JupiterSwap", "RetryDelay"}

CollaboratorCalls == {"GetSOLPrice", "CheckBalance", "JupiterSwap"}

\* C1: for every sequence of prices handed to calculateDynamicStopLoss, in
\* dynamic and in fixed mode, the stop loss returned is never below
\* StopLossPrice.
C1_StopLossNeverBelowInitial ==
    Evaluated => evaluation.effectiveStopLoss >= config.StopLossPrice

\* The trailing stop is in force after a pullback: a price below the
\* recorded high was evaluated and the stop loss returned is above the
\* initial one.
C1_Witness ==
    /\ config.DynamicStopLoss
    /\ config.StopLossAdjustment > 0
    /\ config.HighestPrice # 0
    /\ evaluation.price < config.HighestPrice
    /\ evaluation.effectiveStopLoss = config.HighestPrice - config.StopLossAdjustment
    /\ evaluation.effectiveStopLoss > config.StopLossPrice

\* C2: the position changes only in the step in which the retry wrapper
\* returns nil, and then to the opposite holding; after a wrapper that
\* returned its error the position is the one the cycle started with.
C2_PositionCommittedOnlyOnSuccess ==
    /\ [][(currentPosition # NoPosition /\ currentPosition' # currentPosition)
            => /\ InSwap
               /\ retry.result = "none"
               /\ retry'.result = "nil"
               /\ cycleResult' = "nil"
               /\ currentPosition' = Opposite(currentPosition)]_vars
    /\ [](retry.result = "err" => currentPosition = evaluation.position)
    /\ [](retry.result = "nil" => currentPosition = Opposite(evaluation.position))

\* A cycle that made two failed attempts, exhausted its retries and left
\* the position as it was.
C2_Witness ==
    /\ retry.result = "err"
    /\ retry.failures >= 2
    /\ cycleResult = "swapErr"
    /\ currentPosition = evaluation.position

\* C3: the decision of a cycle is a function of position, price and stop
\* loss: in SOL it is SOLToUSDC iff price < stop loss, in USDC it is
\* USDCToSOL iff price > stop loss, otherwise (equality included) no swap is
\* started; the retry wrapper runs exactly for the swap decided.
C3_DecisionFunction ==
    /\ Evaluated =>
         /\ (evaluation.action = "SOLToUSDC") <=>
               (evaluation.position = InSOL
                /\ evaluation.price < evaluation.effectiveStopLoss)
         /\ (evaluation.action = "USDCToSOL") <=>
               (evaluation.position = InUSDC
                /\ evaluation.price > evaluation.effectiveStopLoss)
         /\ evaluation.action \in {"SOLToUSDC", "USDCToSOL", "None"}
         /\ (evaluation.action = "None") <=> (retry = NoRetry)
    /\ InSwap => Evaluated /\ evaluation.action # "None"

\* A cycle evaluated a price equal to the stop loss while in USDC and
\* started no swap.
C3_Witness ==
    /\ Evaluated
    /\ evaluation.position = InUSDC
    /\ evaluation.price = evaluation.effectiveStopLoss
    /\ evaluation.action = "None"
    /\ pc = "select"
    /\ cycleResult = "nil"

\* C4: with RetryAttempts = n >= 1 and an operation that fails k times and
\* then succeeds: the wrapper returns nil after exactly k + 1 attempts when
\* k < n and makes no attempt after the success; it returns its error after
\* exactly n attempts, all failed, otherwise.
C4_RetryWrapperAttempts ==
    /\ [](config.RetryAttempts >= 1 =>
            /\ retry.result = "nil" =>
                 /\ retry.failures < config.RetryAttempts
                 /\ retry.attemptsMade = retry.failures + 1
            /\ retry.result = "err" =>
                 /\ retry.failures = config.RetryAttempts
                 /\ retry.attemptsMade = config.RetryAttempts
            /\ retry.result = "none" /\ InSwap =>
                 /\ retry.failures < config.RetryAttempts
                 /\ retry.attemptsMade \in {retry.failures, retry.failures + 1})
    /\ [][retry.result # "none" => retry' \in {retry, NoRetry}]_vars

\* The wrapper returned nil on its second attempt, after one failure.
C4_Witness ==
    /\ config.RetryAttempts >= 2
    /\ retry.result = "nil"
    /\ retry.failures = 1
    /\ retry.attemptsMade = 2

\* C5: when the context is cancelled during the delay between two attempts,
\* no further attempt is made in that cycle and the position is not
\* changed.
C5_NoAttemptAfterCancelInDelay ==
    [][cancelledAt = "RetryDelay"
         => /\ retry'.attemptsMade <= retry.attemptsMade
            /\ currentPosition' = currentPosition]_vars

\* C6: once the context is cancelled the loop starts no collaborator call:
\* no price fetch, no balance read and no Jupiter swap begins.
C6_NoCallAfterCancel ==
    [][cancelled => ~(pc' # pc /\ pc' \in CollaboratorCalls)]_vars

\* C7: at most one call of monitorAndSwap is in progress at any time.
C7_OneCycleInFlight == cyclesInFlight <= 1

\* A cycle is in its retry delay while a tick is pending and a further tick
\* has already been dropped: the cycle outlasts the check interval.
C7_Witness ==
    /\ pc = "RetryDelay"
    /\ cyclesInFlight = 1
    /\ tickerC = TickerChanCap
    /\ ticksDropped >= 1

\* C8 as stated: a tick that fires while a cycle is running is never
\* dropped.
C8_NoTickDropped ==
    [][(cyclesInFlight > 0 /\ ticksFired' = ticksFired + 1)
         => ticksDropped' = ticksDropped]_vars

\* C8 amended: the ticker keeps at most one tick pending; a tick that fires
\* while one is pending is dropped, any other is delayed until the loop is
\* back at its select; every tick fired is a cycle started, the pending
\* tick or a dropped tick.
C8_TicksDelayedOrDropped ==
    /\ [](tickerC <= TickerChanCap)
    /\ [](ticksFired = cyclesStarted + tickerC + ticksDropped)
    /\ [][ticksFired' = ticksFired + 1 =>
            IF tickerC < TickerChanCap
            THEN tickerC' = tickerC + 1 /\ ticksDropped' = ticksDropped
            ELSE tickerC' = tickerC /\ ticksDropped' = ticksDropped + 1]_vars

\* A second cycle was started by the tick that waited during the first,
\* after a third tick had been dropped.
C8_Witness ==
    /\ cyclesStarted >= 2
    /\ ticksDropped >= 1
    /\ cyclesInFlight = 1

\* C9: once HighestPrice is non-zero no threshold update decreases it.
C9_HighestPriceNeverDecreases ==
    [][config.HighestPrice # 0
         => config'.HighestPrice >= config.HighestPrice]_vars

\* HighestPrice was recorded and a lower price has been evaluated since.
C9_Witness ==
    /\ config.HighestPrice # 0
    /\ Evaluated
    /\ evaluation.price < config.HighestPrice
    /\ maxObserved > evaluation.price

\* C10: in dynamic mode HighestPrice is 0 as long as no price above
\* StopLossPrice + StopLossAdjustment was observed, and an update with a
\* price at or below that level returns StopLossPrice and leaves
\* HighestPrice as it was.
C10_BelowActivation ==
    /\ []((config.DynamicStopLoss /\ maxObserved <= ActivationLevel)
            => config.HighestPrice = 0)
    /\ [][(config.DynamicStopLoss
           /\ evaluation'.action # "unset"
           /\ evaluation'.price <= ActivationLevel)
            => /\ evaluation'.effectiveStopLoss = config.StopLossPrice
               /\ config'.HighestPrice = config.HighestPrice]_vars

\* After a high was recorded, a price at or below the activation level was
\* evaluated: StopLossPrice was returned and the high kept.
C10_Witness ==
    /\ config.DynamicStopLoss
    /\ config.HighestPrice > ActivationLevel
    /\ Evaluated
    /\ evaluation.price <= ActivationLevel
    /\ evaluation.effectiveStopLoss = config.StopLossPrice

\* C11: with DynamicStopLoss false every threshold update returns
\* StopLossPrice, whatever the price, and leaves HighestPrice as it was.
C11_FixedModeStateless ==
    /\ [](~config.DynamicStopLoss /\ Evaluated
            => evaluation.effectiveStopLoss = config.StopLossPrice)
    /\ [][~config.DynamicStopLoss
            => /\ evaluation'.effectiveStopLoss = config.StopLossPrice
               /\ config'.HighestPrice = config.HighestPrice]_vars

\* In fixed mode a price above the activation level was evaluated after a
\* lower one: StopLossPrice was returned and no high recorded.
C11_Witness ==
    /\ ~config.DynamicStopLoss
    /\ Evaluated
    /\ evaluation.price > ActivationLevel
    /\ evaluation.price < maxObserved
    /\ evaluation.effectiveStopLoss = config.StopLossPrice
    /\ config.HighestPrice = 0

\* C12: an update given the same price as the update before it returns the
\* same stop loss and leaves HighestPrice unchanged.
C12_SamePriceSameStopLoss ==
    [][(Evaluated /\ evaluation'.price = evaluation.price)
         => /\ evaluation'.effectiveStopLoss = evaluation.effectiveStopLoss
            /\ config'.HighestPrice = config.HighestPrice]_vars

\* The price that set the recorded high was handed in a second time.
C12_Witness ==
    /\ samePriceAgain
    /\ config.DynamicStopLoss
    /\ config.StopLossAdjustment > 0
    /\ evaluation.price = config.HighestPrice
    /\ evaluation.effectiveStopLoss = config.HighestPrice - config.StopLossAdjustment

\* C13: in dynamic mode an update with a price above the activation level
\* returns (highest price observed so far) - StopLossAdjustment.
C13_TrailsHighestObserved ==
    (config.DynamicStopLoss /\ Evaluated /\ evaluation.price > ActivationLevel)
        => evaluation.effectiveStopLoss = maxObserved - config.StopLossAdjustment

\* C14: in dynamic mode the stop loss returned by an update is never lower
\* than the one returned by the update before it.
C14_StopLossMonotonic ==
    [][(config.DynamicStopLoss /\ Evaluated)
         => evaluation'.effectiveStopLoss >= evaluation.effectiveStopLoss]_vars

\* C15: in dynamic mode, holding SOL, a cycle whose price is below the
\* trailing stop set by earlier highs (HighestPrice - StopLossAdjustment,
\* when above StopLossPrice) starts the SOL to USDC swap.
C15_TrailingStopTriggers ==
    (/\ config.DynamicStopLoss
     /\ Evaluated
     /\ evaluation.position = InSOL
     /\ config.HighestPrice # 0
     /\ config.HighestPrice - config.StopLossAdjustment > config.StopLossPrice
     /\ evaluation.price < config.HighestPrice - config.StopLossAdjustment)
        => evaluation.action = "SOLToUSDC"

ScenarioAActions == <<"None", "None", "SOLToUSDC">>

\* C16: with StopLossPrice 130, fixed mode, position SOL and every attempt
\* succeeding, the cycles on the prices 135, 132, 128 decide None, None and
\* the swap SOL -> USDC, and the position is USDC once the third cycle has
\* returned (and SOL until then).
C16_ScenarioA ==
    /\ Evaluated
         => /\ evaluation.price = ScenarioAPrices[cyclesStarted]
            /\ evaluation.effectiveStopLoss = 130
            /\ evaluation.action = ScenarioAActions[cyclesStarted]
    /\ (cyclesStarted = 3 /\ cycleResult # "running")
         => cycleResult = "nil" /\ currentPosition = InUSDC
    /\ (cyclesStarted < 3 \/ cycleResult = "running")
         => currentPosition = InSOL

\* The third cycle saw 128, swapped at its first attempt and returned; the
\* position is USDC.
C16_Witness ==
    /\ cyclesStarted = 3
    /\ evaluation.price = 128
    /\ evaluation.action = "SOLToUSDC"
    /\ retry.result = "nil"
    /\ retry.attemptsMade = 1
    /\ cycleResult = "nil"
    /\ currentPosition = InUSDC

ScenarioBThresholdsClaimed == <<130, 137, 145, 145>>

ScenarioBThresholds == <<131, 137, 145, 145>>

\* C17 as stated: with StopLossPrice 130, adjustment 5, dynamic mode and
\* HighestPrice 0, the prices 136, 142, 150, 143 give the effective stop
\* losses 130, 137, 145, 145.
C17_ScenarioBClaimed ==
    Evaluated
      => evaluation.effectiveStopLoss = ScenarioBThresholdsClaimed[cyclesStarted]

\* C17 amended: the same prices give the effective stop losses 131, 137,
\* 145, 145, and HighestPrice 136, 142, 150, 150: the first price 136 is
\* above 130 + 5 and is recorded as the high at once.
C17_ScenarioB ==
    Evaluated
      => /\ evaluation.price = ScenarioBPrices[cyclesStarted]
         /\ evaluation.effectiveStopLoss = ScenarioBThresholds[cyclesStarted]
         /\ config.HighestPrice = ScenarioBThresholds[cyclesStarted] + 5

\* The fourth cycle evaluated 143 against the stop loss 145 kept from the
\* high of 150.
C17_Witness ==
    /\ cyclesStarted = 4
    /\ evaluation.price = 143
    /\ evaluation.effectiveStopLoss = 145
    /\ config.HighestPrice = 150

\* C18: a cycle whose price fetch fails changes neither the position nor
\* the configuration (HighestPrice included), makes no balance read and no
\* Executor call, and returns to the select of Start, which takes the next
\* tick.
C18_PriceFetchFailureSkipsCycle ==
    /\ [][(pc = "GetSOLPrice" /\ cycleResult' = "priceErr")
            => /\ currentPosition' = currentPosition
               /\ config' = config
               /\ evaluation' = NoEvaluation
               /\ retry' = NoRetry
               /\ pc' = "select"
               /\ startResult' = "running"]_vars
    /\ [](cycleResult = "priceErr"
            => /\ retry = NoRetry
               /\ evaluation = NoEvaluation
               /\ \/ pc = "select" /\ startResult = "running"
                  \/ pc = "returned" /\ cancelled /\ startResult = "ctxErr"
               /\ (pc = "select" /\ tickerC > 0) => ENABLED SelectTick)

\* After a cycle that recorded a high, the price fetch of a later cycle
\* failed; the loop is back at its select with a tick waiting.
C18_Witness ==
    /\ cycleResult = "priceErr"
    /\ cyclesStarted >= 2
    /\ config.HighestPrice # 0
    /\ currentPosition = InSOL
    /\ tickerC > 0
    /\ pc = "select"

LocalFailure(action, balance) ==
    \/ action = "SOLToUSDC" /\ balance - config.MinimumSOL <= 0
    \/ action = "USDCToSOL" /\ balance <= 0

\* C19: an attempt whose balance read leaves nothing to swap (SOL balance
\* minus MinimumSOL <= 0, or USDC balance <= 0) does not call the Executor
\* and does not change the position; the Executor is called only with a
\* balance that leaves an amount > 0; a cycle whose every attempt failed that
\* way called no Executor and kept its position.
C19_NoExecutorCallWithoutAmount ==
    /\ [](pc = "JupiterSwap"
            => /\ retry.balanceRead = "ok"
               /\ ~LocalFailure(evaluation.action, retry.balance))
    /\ [][(/\ pc = "CheckBalance"
           /\ pc' # pc
           /\ retry'.balanceRead = "ok"
           /\ LocalFailure(evaluation.action, retry'.balance))
            => /\ pc' # "JupiterSwap"
               /\ retry'.executorCalls = retry.executorCalls
               /\ retry'.localFailures = retry.localFailures + 1
               /\ currentPosition' = currentPosition]_vars
    /\ []((retry.attemptsMade > 0 /\ retry.localFailures = retry.attemptsMade)
            => /\ retry.executorCalls = 0
               /\ currentPosition = evaluation.position)

\* MinimumSOL 0.1 and a SOL balance of 0.05: the cycle ended without an
\* Executor call, still in SOL.
C19_Witness ==
    /\ evaluation.action = "SOLToUSDC"
    /\ config.MinimumSOL = 2
    /\ retry.balanceRead = "ok"
    /\ retry.balance = 1
    /\ retry.localFailures = retry.attemptsMade
    /\ retry.executorCalls = 0
    /\ retry.result = "err"
    /\ currentPosition = InSOL

\* C20 as stated: once an attempt has found nothing to swap, the cycle
\* makes no retry delay and no further attempt.
C20_LocalFailureNotRetried ==
    retry.localFailures >= 1 => ~InSwap

\* C20 amended: an attempt that finds nothing to swap is a failed attempt
\* like any other: while attempts remain it is followed by the retry delay
\* and then by a further attempt with a fresh balance read; after the last
\* attempt the wrapper returns its error and the position is unchanged.
C20_LocalFailureRetried ==
    /\ [][(pc = "CheckBalance" /\ retry'.localFailures = retry.localFailures + 1)
            => IF retry.attempt < config.RetryAttempts
               THEN /\ pc' = "RetryDelay"
                    /\ retry'.result = "none"
                    /\ cycleResult' = "running"
               ELSE /\ pc' = "select"
                    /\ retry'.result = "err"
                    /\ cycleResult' = "swapErr"
                    /\ currentPosition' = currentPosition]_vars
    /\ [][(pc = "RetryDelay" /\ pc' # pc)
            => /\ pc' = "CheckBalance"
               /\ retry'.attemptsMade = retry.attemptsMade + 1
               /\ retry'.balanceRead = "none"]_vars

\* After an attempt that found nothing to swap, the second attempt read a
\* sufficient balance and called the Executor.
C20_Witness ==
    /\ retry.localFailures = 1
    /\ retry.attemptsMade = 2
    /\ retry.executorCalls = 1
    /\ pc = "JupiterSwap"

StartupDone == startupReads.given /\ pc \notin StartupPcs

LoopNeverStarted ==
    /\ currentPosition = NoPosition
    /\ ticksFired = 0
    /\ cyclesStarted = 0
    /\ evaluation = NoEvaluation
    /\ retry = NoRetry
    /\ config.HighestPrice = 0

\* C23 as stated: when the SOL balance read or the USDC balance read of
\* the startup fails, Start returns a startup error and the loop never
\* starts.
C23_StartupReadFailureIsFatal ==
    (StartupDone /\ (~startupReads.solOk \/ ~startupReads.usdcOk))
      => /\ pc = "returned"
         /\ startResult = "positionError"
         /\ LoopNeverStarted

\* C23 amended: a failed SOL balance read makes Start return a startup
\* error and the loop never starts; a failed USDC balance read (after a
\* successful SOL read) is no error: the position is SOL and the loop
\* starts.
C23_SolReadFailureIsFatal ==
    /\ (StartupDone /\ ~startupReads.solOk)
         => /\ pc = "returned"
            /\ startResult = "positionError"
            /\ LoopNeverStarted
    /\ (StartupDone /\ startupReads.solOk /\ ~startupReads.usdcOk)
         => /\ startResult = "running"
            /\ pc # "returned"
            /\ cyclesStarted = 0 => currentPosition = InSOL

\* The USDC read failed at startup and a cycle has evaluated a price from
\* the position SOL.
C23_Witness ==
    /\ StartupDone
    /\ startupReads.solOk
    /\ ~startupReads.usdcOk
    /\ cyclesStarted = 1
    /\ Evaluated
    /\ evaluation.position = InSOL

\* C24: with a non-positive CheckInterval Start returns a startup error
\* and no cycle is ever run.
C24_NonPositiveIntervalIsStartupError ==
    (StartupDone /\ config.CheckInterval <= 0)
      => /\ pc = "returned"
         /\ startResult # "running"
         /\ cyclesStarted = 0

\* C25: after successful startup reads the initial position is USDC iff
\* the USDC balance has a value above 1.0, and SOL otherwise (a balance of
\* exactly 1.0 or less, or no value), whatever the SOL balance is.
C25_InitialPosition ==
    (StartupDone /\ startupReads.solOk /\ startupReads.usdcOk
       /\ cyclesStarted = 0)
      => /\ currentPosition = InUSDC
              <=> (startupReads.usdcHasValue /\ startupReads.usdcBalance > 1)
         /\ currentPosition = InSOL
              <=> ~(startupReads.usdcHasValue /\ startupReads.usdcBalance > 1)

\* Exactly one USDC and no SOL at all: the initial position is SOL.
C25_Witness ==
    /\ StartupDone
    /\ startupReads.solOk
    /\ startupReads.usdcOk
    /\ startupReads.usdcHasValue
    /\ startupReads.usdcBalance = 1
    /\ startupReads.solBalance = 0
    /\ cyclesStarted = 0
    /\ currentPosition = InSOL

\* C21: when every attempt has failed, the error returned by the retry
\* wrapper carries the error of the last failed attempt.
C21_ExhaustedCarriesLastError ==
    (retry.result = "err" /\ retry.attemptsMade >= 1)
      => /\ retry.lastError # "none"
         /\ retry.wrapperError.cause = retry.lastError

\* C22: once the loop is running, a failed price fetch, a failed balance
\* read, a failed attempt or an exhausted retry wrapper sends Start back to
\* its select; Start returns only when the context is cancelled, with the
\* context's error.
C22_OnlyCancellationEndsLoop ==
    /\ []((pc = "returned" /\ currentPosition # NoPosition)
            => cancelled /\ startResult = "ctxErr")
    /\ [][(cycleResult' \in {"priceErr", "swapErr"} /\ cycleResult' # cycleResult)
            => pc' = "select" /\ startResult' = "running"]_vars
    /\ [][(pc \in {"CheckBalance", "JupiterSwap"}
           /\ retry'.failures = retry.failures + 1)
            => pc' \in {"RetryDelay", "select"} /\ startResult' = "running"]_vars

\* Start returned the context's error after a cycle that had exhausted its
\* retries on a failed balance read.
C22_Witness ==
    /\ pc = "returned"
    /\ startResult = "ctxErr"
    /\ cancelled
    /\ cycleResult = "swapErr"
    /\ retry.failures = 2
    /\ retry.lastError = "balanceReadErr"
    /\ cyclesStarted >= 2

ActionMatchesPosition ==
    \/ evaluation.action = "SOLToUSDC" /\ currentPosition = InSOL
    \/ evaluation.action = "USDCToSOL" /\ currentPosition = InUSDC

\* C26: successful swaps alternate in direction, and an attempt is only
\* made in the direction away from the current position (SOL -> USDC while
\* in SOL, USDC -> SOL while in USDC).
C26_SwapsAlternate ==
    /\ [](InSwap => ActionMatchesPosition)
    /\ [][(retry'.result = "nil" /\ retry.result # "nil")
            => /\ lastSwap' = evaluation.action
               /\ lastSwap' # lastSwap
               /\ currentPosition' = Opposite(currentPosition)]_vars
    /\ [][lastSwap' # lastSwap
            => retry'.result = "nil" /\ retry.result # "nil"]_vars

\* The buy-back after a successful sale is at the Jupiter service.
C26_Witness ==
    /\ lastSwap = "SOLToUSDC"
    /\ currentPosition = InUSDC
    /\ evaluation.action = "USDCToSOL"
    /\ pc = "JupiterSwap"

\* C27: the Jupiter service is called for SOL -> USDC with the SOL mint,
\* the USDC mint and the SOL balance read by the attempt minus MinimumSOL,
\* in lamports, and for USDC -> SOL with the USDC mint, the SOL mint and the
\* whole raw USDC balance read by the attempt; the amount is positive.
C27_ExecutorCallArguments ==
    pc = "JupiterSwap"
      => /\ retry.balanceRead = "ok"
         /\ retry.swapCall.amount > 0
         /\ evaluation.action = "SOLToUSDC"
              => /\ retry.swapCall.inputMint = SolMint
                 /\ retry.swapCall.outputMint = USDCMint
                 /\ retry.swapCall.amount =
                      (retry.balance - config.MinimumSOL) * LamportsPerSolUnit
         /\ evaluation.action = "USDCToSOL"
              => /\ retry.swapCall.inputMint = USDCMint
                 /\ retry.swapCall.outputMint = SolMint
                 /\ retry.swapCall.amount = retry.balance * RawPerUSDC

\* C28: every attempt starts, after the price fetch of its cycle, without a
\* balance; the Jupiter service is only called straight after a successful
\* balance read of the same attempt, with the amount computed from it; a
\* failed balance read ends the attempt without a call.
C28_FreshBalancePerAttempt ==
    /\ [](pc = "JupiterSwap"
            => /\ retry.balanceRead = "ok"
               /\ retry.swapCall = ExecutorCall(evaluation.action, retry.balance,
                                                config.MinimumSOL))
    /\ [][(pc' = "JupiterSwap" /\ pc # "JupiterSwap")
            => /\ pc = "CheckBalance"
               /\ retry.balanceRead = "none"
               /\ retry'.balanceRead = "ok"
               /\ retry'.executorCalls = retry.executorCalls + 1]_vars
    /\ [][(pc' = "CheckBalance" /\ pc # "CheckBalance")
            => /\ pc \in {"GetSOLPrice", "RetryDelay"}
               /\ Evaluated'
               /\ retry'.balanceRead = "none"
               /\ retry'.swapCall = NoSwapCall]_vars
    /\ [][(pc = "CheckBalance" /\ retry'.balanceRead = "err")
            => /\ pc' # "JupiterSwap"
               /\ retry'.executorCalls = retry.executorCalls
               /\ retry'.failures = retry.failures + 1]_vars

\* The second attempt of a cycle, after a failed Jupiter call, has read the
\* balance again and is at the Jupiter service.
C28_Witness ==
    /\ pc = "JupiterSwap"
    /\ retry.attemptsMade = 2
    /\ retry.executorCalls = 2
    /\ retry.balanceRead = "ok"
    /\ retry.balance = MaxSolBalance

\* C29: a Jupiter call in flight when the context is cancelled still
\* returns, with success or with an error, and the retry wrapper acts on
\* what it returned; Start cannot return while the call is in flight.
C29_InFlightAttemptCompletes ==
    /\ []((pc = "JupiterSwap" /\ cancelled)
            => /\ ENABLED JupiterSwapReturns(TRUE)
               /\ ENABLED JupiterSwapReturns(FALSE)
               /\ ~ENABLED SelectDone)
    /\ [][(pc = "JupiterSwap" /\ cancelled /\ pc' # pc)
            => \/ /\ retry'.executorReturned = "nil"
                  /\ retry'.result = "nil"
                  /\ cycleResult' = "nil"
                  /\ currentPosition' = Opposite(currentPosition)
               \/ /\ retry'.executorReturned = "err"
                  /\ retry'.failures = retry.failures + 1
                  /\ currentPosition' = currentPosition
                  /\ pc' \in {"RetryDelay", "select"}]_vars

\* The context was cancelled during a Jupiter call, which then succeeded:
\* the position is committed.
C29_Witness ==
    /\ cancelledAt = "JupiterSwap"
    /\ retry.executorReturned = "nil"
    /\ retry.result = "nil"
    /\ lastSwap = evaluation.action
    /\ currentPosition = Opposite(evaluation.position)

\* C30: a cycle that finds the swap condition again after a cycle with
\* exhausted retries enters the retry wrapper with attempt 1 and no
\* failure recorded, and makes up to RetryAttempts attempts.  (With the
\* price 128 in both cycles, a second cycle evaluated in SOL follows a first
\* cycle that exhausted its retries.)
C30_RetriesStartAfresh ==
    /\ [][(pc = "GetSOLPrice" /\ pc' = "CheckBalance")
            => retry' = [NoRetry EXCEPT !.attempt = 1, !.attemptsMade = 1]]_vars
    /\ []((cyclesStarted = 2 /\ Evaluated /\ evaluation.position = InSOL)
            => /\ evaluation.action = "SOLToUSDC"
               /\ retry.attemptsMade >= 1
               /\ retry.attemptsMade <= config.RetryAttempts
               /\ retry.failures <= retry.attemptsMade
               /\ (retry.result = "err"
                     => retry.failures = config.RetryAttempts))
    /\ []((cyclesStarted = 2 /\ pc = "RetryDelay")
            => ENABLED RetryDelayElapsed)

\* The second cycle, after a first one that exhausted two attempts, failed
\* once and succeeded with its second attempt.
C30_Witness ==
    /\ cyclesStarted = 2
    /\ evaluation.position = InSOL
    /\ config.RetryAttempts = 2
    /\ retry.attemptsMade = 2
    /\ retry.failures = 1
    /\ retry.result = "nil"
    /\ currentPosition = InUSDC

(***************************************************************************)
(* C31: the retry wrapper sleeps only between attempts.  A sleep begins    *)
(* only when an attempt has just failed and attempts remain, so after a    *)
(* failures the wrapper has started exactly min(a, RetryAttempts - 1)      *)
(* sleeps: none after the last failed attempt, none after a success.       *)
(***************************************************************************)
Min(a, b) == IF a <= b THEN a ELSE b

DelaysFor(failures, retryAttempts) ==
    IF failures = 0 THEN 0 ELSE Min(failures, retryAttempts - 1)

DelayStep ==
    /\ (pc' = "RetryDelay" /\ pc # "RetryDelay")
          => (/\ retry'.failures = retry.failures + 1
              /\ MoreAttempts(retry.attempt, config.RetryAttempts)
              /\ retry'.delays = retry.delays + 1)
    /\ (retry'.result # "none" /\ retry.result = "none")
          => retry'.delays = retry.delays

C31_DelaysOnlyBetweenAttempts ==
    /\ [](retry.delays = DelaysFor(retry.failures, config.RetryAttempts))
    /\ [][DelayStep]_vars

\* Every attempt of a wrapper with two attempts has failed: one sleep, and
\* none after the second failure.
C31_Witness ==
    /\ config.RetryAttempts = 2
    /\ retry.result = "err"
    /\ retry.failures = 2
    /\ retry.delays = 1

(***************************************************************************)
(* C35: HighestPrice is written only by calculateDynamicStopLoss, in a     *)
(* cycle whose price fetch succeeded, whatever the position.  The retry    *)
(* wrapper, its attempts and the position commit leave it as it is: it is  *)
(* never reset or rolled back when the position flips.                     *)
(***************************************************************************)
PriceFetchSucceeds ==
    pc = "GetSOLPrice" /\ pc' # "GetSOLPrice" /\ cycleResult' # "priceErr"

HighestPriceFrame ==
    /\ PriceFetchSucceeds
          => config'.HighestPrice =
                 calculateDynamicStopLoss(config, evaluation'.price).HighestPrice
    /\ ~PriceFetchSucceeds => config'.HighestPrice = config.HighestPrice
    /\ currentPosition' # currentPosition
          => config'.HighestPrice = config.HighestPrice
    /\ (InSwap /\ ~InSwap') => config'.HighestPrice = config.HighestPrice

C35_HighestPriceWrittenOnlyByUpdate == [][HighestPriceFrame]_vars

\* A highest price recorded while SOL was held has survived the swap to
\* USDC, and then a cycle holding USDC has raised it.
C35_Witness ==
    /\ lastSwap = "SOLToUSDC"
    /\ currentPosition = InUSDC
    /\ evaluation.position = InUSDC
    /\ evaluation.action = "None"
    /\ config.HighestPrice = evaluation.price
    /\ config.HighestPrice = MaxLoopPrice

(***************************************************************************)
(* C36: with RetryAttempts <= 0 the body of the retry loop never runs: no  *)
(* balance read, no call of the Jupiter service, the wrapper returns its   *)
(* error, and the position stays what determineCurrentPosition made it.    *)
(* With RetryAttempts >= 1 every triggered swap makes an attempt.  The     *)
(* evaluation of a triggered swap stays recorded while a later cycle runs  *)
(* or fails to fetch a price; no cycle with a triggered swap returns nil.  *)
(***************************************************************************)
SwapTriggered == Evaluated /\ evaluation.action # "None"

NoAttemptMade ==
    /\ ~InSwap
    /\ retry.attemptsMade = 0
    /\ retry.balanceRead = "none"
    /\ retry.executorCalls = 0
    /\ retry.swapCall = NoSwapCall
    /\ lastSwap = "none"

RetryAttemptsState ==
    /\ config.RetryAttempts <= 0
          => /\ NoAttemptMade
             /\ SwapTriggered
                   => /\ retry.result = "err"
                      /\ retry.wrapperError = WrapperError(config.RetryAttempts)
                      /\ cycleResult \in {"swapErr", "running", "priceErr"}
    /\ (config.RetryAttempts >= 1 /\ SwapTriggered)
          => /\ retry.attemptsMade >= 1
             /\ retry.balanceRead # "none" \/ pc = "CheckBalance"

PositionFrozen ==
    (config.RetryAttempts <= 0 /\ pc \notin StartupPcs)
       => currentPosition' = currentPosition

C36_NoAttemptWithoutRetryAttempts ==
    []RetryAttemptsState /\ [][PositionFrozen]_vars

\* RetryAttempts = 0: two cycles in a row have triggered a swap and each
\* has ended with the error of the wrapper, the position as it was.
C36_Witness ==
    /\ config.RetryAttempts = 0
    /\ cyclesStarted >= 2
    /\ SwapTriggered
    /\ cycleResult = "swapErr"
    /\ currentPosition = evaluation.position
    /\ NoAttemptMade

(***************************************************************************)
(* C32: once the context is cancelled Start returns, however long the      *)
(* ticker goes on firing, given that every collaborator call returns and   *)
(* that the select takes the ctx.Done() case sooner or later.              *)
(***************************************************************************)
C32_StartReturnsAfterCancel == cancelled ~> pc = "returned"

\* Start has returned the context error after more cycles than the counted
\* ticks allow: the ticker was still firing.
C32_Witness ==
    /\ pc = "returned"
    /\ startResult = "ctxErr"
    /\ cancelledAt = "JupiterSwap"
    /\ cyclesStarted = MaxTicks
    /\ ticksFired = MaxTicks
    /\ tickerC = TickerChanCap

(***************************************************************************)
(* C34: an attempt that failed after its transaction was sent is retried   *)
(* like any other failed attempt: a sleep while attempts remain, then a    *)
(* fresh balance read and, with an amount, another call of the Jupiter     *)
(* service.  One cycle can so submit up to RetryAttempts transactions, and *)
(* when every attempt fails the position is left as it was although        *)
(* transactions were submitted.                                            *)
(***************************************************************************)
UnconfirmedAttempt == pc = "JupiterSwap" /\ retry'.lastError = "unconfirmed"

UnconfirmedIsOrdinaryFailure ==
    /\ UnconfirmedAttempt
          => /\ retry'.failures = retry.failures + 1
             /\ retry'.submitted = retry.submitted + 1
             /\ currentPosition' = currentPosition
             /\ IF MoreAttempts(retry.attempt, config.RetryAttempts)
                THEN pc' = "RetryDelay" /\ retry'.result = "none"
                ELSE /\ pc' = "select"
                     /\ retry'.result = "err"
                     /\ cycleResult' = "swapErr"
    /\ (pc = "RetryDelay" /\ retry.lastError = "unconfirmed" /\ pc' # pc)
          => /\ pc' = "CheckBalance"
             /\ retry'.attempt = retry.attempt + 1
             /\ retry'.balanceRead = "none"
             /\ retry'.swapCall = NoSwapCall
    /\ (pc = "CheckBalance" /\ pc' = "JupiterSwap")
          => retry'.swapCall = ExecutorCall(evaluation.action, retry'.balance,
                                            config.MinimumSOL)

SubmittedWithinAttempts ==
    /\ retry.submitted <= retry.executorCalls
    /\ retry.executorCalls <= Max(config.RetryAttempts, 0)
    /\ (retry.result = "err" /\ retry.submitted >= 1)
          => currentPosition = evaluation.position

C34_UnconfirmedAttemptIsRetried ==
    []SubmittedWithinAttempts /\ [][UnconfirmedIsOrdinaryFailure]_vars

\* Every attempt of the wrapper has sent its transaction and failed at the
\* signature check: as many transactions as attempts, the position as it was.
C34_Witness ==
    /\ config.RetryAttempts = MaxRetryAttempts
    /\ retry.submitted = MaxRetryAttempts
    /\ retry.failures = MaxRetryAttempts
    /\ retry.result = "err"
    /\ retry.lastError = "unconfirmed"
    /\ cycleResult = "swapErr"
    /\ currentPosition = evaluation.position

(***************************************************************************)
(* C33: every call of Swap delivers exactly one result and then returns:   *)
(* one value is sent on errChan per call, the caller stays blocked until   *)
(* it arrives, a blocked caller is in a process that is still running, and *)
(* nil is returned only after the transaction was sent and its signature   *)
(* check succeeded.                                                        *)
(***************************************************************************)
C33_SwapDeliversOneResult ==
    /\ jup.results <= 1
    /\ Len(jup.errChan) <= 1
    /\ jup.pc = "done" => jup.results = 1
    /\ jup.caller = "returned"
          => /\ jup.results = 1
             /\ jup.errChan = <<>>
             /\ jup.pc = "done"
             /\ jup.result \in {"nil", "err"}
             /\ jup.result = "nil" => (jup.sent /\ jup.confirmed)
    /\ jup.caller = "blocked" => ~pkgLog.crashed

(***************************************************************************)
(* C37: no package-level logging call, and no goroutine started by one,    *)
(* calls a method on a nil default logger.                                 *)
(***************************************************************************)
C37_NoNilLoggerUse == pkgLog.nilCalls = 0

(***************************************************************************)
(* C38: a LogSwapOperation call that runs while Close runs never sends on  *)
(* the closed channel: its entry is queued before the channel is closed    *)
(* or rejected with the closed-logger warning.                             *)
(***************************************************************************)
C38_NoSendOnClosedChannel == ulog.sendOnClosed = 0

(***************************************************************************)
(* C39: Close returns only after the worker has processed every entry      *)
(* queued before the channel was closed, in the order of queueing.  A      *)
(* Close call made after that returns at once and changes nothing; one     *)
(* made while the first runs returns no earlier than the first.            *)
(***************************************************************************)
SomeCloseReturned == \E k \in DOMAIN ulog.closers : ulog.closers[k] = "returned"

CloseDrains ==
    /\ ulog.queued = ulog.processed \o ulog.logChan
    /\ SomeCloseReturned
          => /\ ulog.chanClosed
             /\ ulog.worker = "exited"
             /\ ulog.logChan = <<>>
             /\ ulog.processed = ulog.queued
    /\ \A k \in DOMAIN ulog.closers :
          (ulog.closers[k] = "idle" /\ ulog.once = "done" /\ ~ulog.crashed)
             => ENABLED CloseCalled(k)

SecondCloseDoesNothing ==
    \A k \in DOMAIN ulog.closers :
       (ulog.closers[k] = "idle" /\ ulog.once = "done"
          /\ ulog'.closers[k] # "idle")
         => ulog' = [ulog EXCEPT !.closers[k] = "returned"]

C39_CloseDrainsQueue == []CloseDrains /\ [][SecondCloseDoesNothing]_vars

\* Both Close calls have returned and the worker has processed a channel
\* full of entries in the order queued.
C39_Witness ==
    /\ ulog.made
    /\ \A k \in Closers : ulog.closers[k] = "returned"
    /\ Len(ulog.queued) = LogChanCap
    /\ ulog.processed = ulog.queued
    /\ ulog.processed[1] < ulog.processed[2]

(***************************************************************************)
(* C40: LogSwapOperation never blocks: whatever the state of the channel   *)
(* the select completes.  An entry that finds the channel full is dropped  *)
(* and the queued entries stay as they are; after Close has returned no    *)
(* entry is queued.                                                        *)
(***************************************************************************)
SelectNeverBlocks ==
    \A c \in DOMAIN ulog.callers :
       (ulog.callers[c].pc = "select" /\ ~ulog.crashed)
          => ENABLED LogSwapOperationSelect(c)

CheckNeverBlocks ==
    \A c \in DOMAIN ulog.callers :
       (ulog.callers[c].pc = "idle" /\ ~ulog.crashed
          /\ ulog.entries < MaxLogEntries)
          => ENABLED LogSwapOperationCheck(c)

FullChannelDrops ==
    \A c \in DOMAIN ulog.callers :
       (ulog.callers[c].pc = "select" /\ ulog'.callers[c].pc # "select"
          /\ ~ulog.chanClosed /\ Len(ulog.logChan) = LogChanCap)
         => /\ ulog'.logChan = ulog.logChan
            /\ ulog'.queued = ulog.queued
            /\ ulog'.dropped = ulog.dropped + 1
            /\ ulog'.callers[c].pc = "idle"

NothingQueuedAfterClose ==
    SomeCloseReturned => (ulog'.queued = ulog.queued /\ ulog'.logChan = ulog.logChan)

C40_LogSwapOperationNeverBlocks ==
    /\ [](SelectNeverBlocks /\ CheckNeverBlocks /\ Len(ulog.logChan) <= LogChanCap)
    /\ [][FullChannelDrops /\ NothingQueuedAfterClose]_vars

\* An entry has been dropped at a full channel, whose entries are the first
\* ones queued.
C40_Witness ==
    /\ ulog.made
    /\ ulog.dropped >= 1
    /\ Len(ulog.logChan) = LogChanCap
    /\ ulog.logChan = ulog.queued
    /\ ulog.entries = LogChanCap + 1
    /\ \A c \in LogCallers : ulog.callers[c].pc = "idle"

====
